---- MODULE Spec2Model ----
(***************************************************************************)
(* Verification model of the AgIR-CVToolkit query layer:                   *)
(*   core/db/filters.py  - mini-DSL parser and WHERE compiler              *)
(*   core/db/agir_db.py  - QueryBuilder, AgirDB.query streaming executor   *)
(*                                                                         *)
(* Text is modelled as a sequence of lexical tokens.  An input token is a  *)
(* record [c, s]: class c is "w" (a \w+ identifier or keyword), "n" (a     *)
(* number literal, also \w+), "q" (a quoted string literal) or "p"         *)
(* (punctuation / operator); s is its text.  SQL output is a sequence of   *)
(* strings.                                                                *)
(***************************************************************************)
EXTENDS Integers, Sequences, FiniteSets, TLC

VARIABLES fmap, fpc, exprs, wpc, parts, whereSql, whereParams, werr,
          heap, builder, qspec, snap, supplied, calls,
          table, spec, pc, projection_cols, stmt, cur, stats, out, err,
          consumer, called, result, counted,
          _conn, conns, gen, gen_con, log,
          db_type, data, record, rpc,
          kseed, kords, kkeys, kpc

whereVars == <<fmap, fpc, exprs, wpc, parts, whereSql, whereParams, werr>>

builderVars == <<heap, builder, qspec, snap, supplied, calls>>

callerVars == <<consumer, called, result, counted>>

connVars == <<_conn, conns, gen, gen_con, log>>

recVars == <<db_type, data, record, rpc>>

keyVars == <<kseed, kords, kkeys, kpc>>

queryVars == <<table, spec, pc, projection_cols, stmt, cur, stats, out, err,
               consumer, called, result, counted, _conn, conns, gen, gen_con, log,
          db_type, data, record, rpc, kseed, kords, kkeys, kpc>>

vars == <<fmap, fpc, exprs, wpc, parts, whereSql, whereParams, werr,
          heap, builder, qspec, snap, supplied, calls,
          table, spec, pc, projection_cols, stmt, cur, stats, out, err,
          consumer, called, result, counted, _conn, conns, gen, gen_con, log,
          db_type, data, record, rpc, kseed, kords, kkeys, kpc>>

(***************************************************************************)
(* Bounds                                                                  *)
(***************************************************************************)
MaxExprs == 2
MaxEntries == 2
MaxOps == 4
MaxCalls == 3
NRows == 4

(***************************************************************************)
(* filters.py                                                              *)
(***************************************************************************)
IN_CHUNK == 1000

None == <<>>
Some(v) == <<v>>

W(s) == [c |-> "w", s |-> s]
N(i) == [c |-> "n", s |-> ToString(i)]
P(s) == [c |-> "p", s |-> s]

Min(a, b) == IF a < b THEN a ELSE b

\* texts of a token sequence
Texts(toks) == [i \in 1..Len(toks) |-> toks[i].s]

\* a value: ty is "scalar", "list", "tuple" or "text"; items are its element texts
Value(ty, items) == [ty |-> ty, items |-> items]

IsWordTok(t) == t.c \in {"w", "n"}
IsLitTok(t) == t.c \in {"n", "q"}
IsKw(t, kw) == t.c = "w" /\ t.s = kw

\* comma separated literals: lit (, lit)*
IsItems(toks) ==
    /\ Len(toks) % 2 = 1
    /\ \A i \in 1..Len(toks) :
          IF i % 2 = 1 THEN IsLitTok(toks[i]) ELSE toks[i] = P(",")

Items(toks) == [i \in 1..((Len(toks) + 1) \div 2) |-> toks[2 * i - 1].s]

\* _lit: ast.literal_eval of the stripped text, the text itself when that raises
_lit(toks) ==
    LET t == toks
        inner == SubSeq(t, 2, Len(t) - 1)
    IN IF Len(t) = 1 /\ IsLitTok(t[1]) THEN Value("scalar", <<t[1].s>>)
       ELSE IF Len(t) = 2 /\ t[1] = P("[") /\ t[2] = P("]") THEN Value("list", <<>>)
       ELSE IF Len(t) >= 3 /\ t[1] = P("[") /\ t[Len(t)] = P("]") /\ IsItems(inner)
            THEN Value("list", Items(inner))
       ELSE IF Len(t) >= 3 /\ IsItems(t) THEN Value("tuple", Items(t))
       ELSE Value("text", Texts(t))

\* _rx_null: ^\s*(\w+)\s+is\s+(not\s+)?null\s*$
rx_null(e) ==
    /\ Len(e) \in {3, 4}
    /\ IsWordTok(e[1])
    /\ IsKw(e[2], "is")
    /\ IsKw(e[Len(e)], "null")
    /\ Len(e) = 4 => IsKw(e[3], "not")

\* positions of a separator inside e[from..to] that leave a non-empty lo and hi
SepPositions(e, from, to, sep) ==
    {p \in (from + 1)..(to - 1) : e[p] = sep}

SetMin(S) == CHOOSE x \in S : \A y \in S : x <= y

\* mutant: the bracketed range is recognised after `in` only
rx_range_in_only(e) ==
    /\ Len(e) >= 7
    /\ IsWordTok(e[1])
    /\ IsKw(e[2], "in")
    /\ e[3] = P("[")
    /\ e[Len(e)] = P("]")
    /\ SepPositions(e, 4, Len(e) - 1, P(",")) # {}

\* _rx_range: ^\s*(\w+)\s*(?:in|between)\s*\[(.+?),(.+?)\]\s*$
rx_range(e) ==
    /\ Len(e) >= 7
    /\ IsWordTok(e[1])
    /\ IsKw(e[2], "in") \/ IsKw(e[2], "between")
    /\ e[3] = P("[")
    /\ e[Len(e)] = P("]")
    /\ SepPositions(e, 4, Len(e) - 1, P(",")) # {}

\* _rx_range2: ^\s*(\w+)\s*between\s+(.+?)\s+and\s+(.+?)\s*$
rx_range2(e) ==
    /\ Len(e) >= 5
    /\ IsWordTok(e[1])
    /\ IsKw(e[2], "between")
    /\ SepPositions(e, 3, Len(e), W("and")) # {}

BinOps == {"==", ">=", "<=", ">", "<"}

\* _rx_bin: ^\s*(\w+)\s*(==|>=|<=|>|<)\s*(.+?)\s*$
rx_bin(e) ==
    /\ Len(e) >= 3
    /\ IsWordTok(e[1])
    /\ e[2].c = "p" /\ e[2].s \in BinOps

SqlWhere(sql, params) == [sql |-> sql, params |-> params]

\* mutant: one placeholder too many
Qmarks_extra(n) == [i \in 1..(2 * n + 1) |-> IF i % 2 = 1 THEN "?" ELSE ","]

Qmarks(n) == [i \in 1..(2 * n - 1) |-> IF i % 2 = 1 THEN "?" ELSE ","]

\* mutant: the slice stops one element early
Chunk_short(rhs, i) == SubSeq(rhs, i + 1, Min(i + IN_CHUNK - 1, Len(rhs)))

\* the chunk of rhs starting at offset i (0-based): rhs[i:i+IN_CHUNK]
Chunk(rhs, i) == SubSeq(rhs, i + 1, Min(i + IN_CHUNK, Len(rhs)))

\* mutant: the values are written into the text
ChunkWhere_inline(key, chunk) ==
    SqlWhere(<<key, "IN", "(">>
             \o [i \in 1..(2 * Len(chunk) - 1) |-> IF i % 2 = 1 THEN chunk[(i + 1) \div 2] ELSE ","]
             \o <<")">>,
             <<>>)

ChunkWhere(key, chunk) ==
    SqlWhere(<<key, "IN", "(">> \o Qmarks(Len(chunk)) \o <<")">>,
             [j \in 1..Len(chunk) |-> Value("scalar", <<chunk[j]>>)])

\* for i in range(0, len(rhs), IN_CHUNK): parts.append(...)
ChunkParts(key, rhs) ==
    [c \in 1..((Len(rhs) + IN_CHUNK - 1) \div IN_CHUNK) |->
        ChunkWhere(key, Chunk(rhs, (c - 1) * IN_CHUNK))]

RECURSIVE JoinSql(_, _)
JoinSql(ps, sep) ==
    IF Len(ps) = 0 THEN <<>>
    ELSE IF Len(ps) = 1 THEN ps[1]
    ELSE ps[1] \o <<sep>> \o JoinSql(Tail(ps), sep)

RECURSIVE SumParams(_)
SumParams(ws) ==
    IF Len(ws) = 0 THEN <<>> ELSE ws[1].params \o SumParams(Tail(ws))

Sqls(ws) == [i \in 1..Len(ws) |-> ws[i].sql]

RECURSIVE SumParamsRev(_)
SumParamsRev(ws) ==
    IF Len(ws) = 0 THEN <<>> ELSE SumParamsRev(Tail(ws)) \o ws[1].params

\* mutant: chunk parameters concatenated last chunk first
Membership_rev(key, rhs) ==
    LET ps == ChunkParts(key, rhs) IN
    IF Len(ps) = 1 THEN ps
    ELSE <<SqlWhere(<<"(">> \o JoinSql(Sqls(ps), "OR") \o <<")">>, SumParamsRev(ps))>>

Membership(key, rhs) ==
    LET ps == ChunkParts(key, rhs) IN
    IF Len(ps) = 1 THEN ps
    ELSE <<SqlWhere(<<"(">> \o JoinSql(Sqls(ps), "OR") \o <<")">>, SumParams(ps))>>

\* mutant: the bounds are bound in the opposite order
RangeWhere_swapped(key, lo, hi) == SqlWhere(<<key, "BETWEEN", "?", "AND", "?">>, <<hi, lo>>)

\* SqlWhere(sql=f"{key} BETWEEN ? AND ?", params=(lo, hi))
RangeWhere(key, lo, hi) == SqlWhere(<<key, "BETWEEN", "?", "AND", "?">>, <<lo, hi>>)

\* parse_filter: ok = FALSE models the ValueError, err is its message
parse_filter(e) ==
    IF rx_null(e) THEN
        [ok |-> TRUE, err |-> <<>>,
         ws |-> <<SqlWhere(<<e[1].s, "IS">> \o (IF Len(e) = 4 THEN <<"NOT">> ELSE <<>>) \o <<"NULL">>,
                           <<>>)>>]
    ELSE IF rx_range(e) THEN
        LET p == SetMin(SepPositions(e, 4, Len(e) - 1, P(","))) IN
        [ok |-> TRUE, err |-> <<>>,
         ws |-> <<RangeWhere(e[1].s, _lit(SubSeq(e, 4, p - 1)), _lit(SubSeq(e, p + 1, Len(e) - 1)))>>]
    ELSE IF rx_range2(e) THEN
        LET p == SetMin(SepPositions(e, 3, Len(e), W("and"))) IN
        [ok |-> TRUE, err |-> <<>>,
         ws |-> <<RangeWhere(e[1].s, _lit(SubSeq(e, 3, p - 1)), _lit(SubSeq(e, p + 1, Len(e))))>>]
    ELSE IF rx_bin(e) THEN
        LET rhs == _lit(SubSeq(e, 3, Len(e))) IN
        IF rhs.ty \in {"list", "tuple"} THEN
            [ok |-> TRUE, err |-> <<>>, ws |-> Membership(e[1].s, rhs.items)]
        ELSE
            [ok |-> TRUE, err |-> <<>>,
             ws |-> <<SqlWhere(<<e[1].s, IF e[2].s = "==" THEN "=" ELSE e[2].s, "?">>, <<rhs>>)>>]
    ELSE [ok |-> FALSE, err |-> <<"Bad filter expr:">> \o Texts(e), ws |-> <<>>]

\* the loop body of build_where for one expression
WherePart(ws) ==
    IF Len(ws) = 1 THEN ws[1].sql
    ELSE <<"(">> \o JoinSql(Sqls(ws), "OR") \o <<")">>

\* build_where
build_where(es) ==
    IF Len(es) = 0 THEN [ok |-> TRUE, err |-> <<>>, parts |-> <<>>, sql |-> <<>>, params |-> <<>>]
    ELSE IF \E j \in 1..Len(es) : ~parse_filter(es[j]).ok
         THEN [ok |-> FALSE,
               err |-> parse_filter(es[SetMin({j \in 1..Len(es) : ~parse_filter(es[j]).ok})]).err,
               parts |-> <<>>, sql |-> <<>>, params |-> <<>>]
    ELSE LET pf == [j \in 1..Len(es) |-> parse_filter(es[j]).ws]
             ps == [j \in 1..Len(es) |-> WherePart(pf[j])]
             wp == [j \in 1..Len(es) |-> SqlWhere(<<>>, SumParams(pf[j]))]
         IN [ok |-> TRUE, err |-> <<>>, parts |-> ps,
             sql |-> <<"WHERE">> \o JoinSql(ps, "AND"),
             params |-> SumParams(wp)]

(***************************************************************************)
(* filters.py: filters_to_exprs.  A filter map is a sequence of entries    *)
(* [k, v] in insertion order.  A value v is a record: ty is its Python     *)
(* type, toks the tokens of str(v), items its elements (each [isStr,       *)
(* toks], toks being the tokens of the element as formatted in a list).    *)
(***************************************************************************)
FVal(ty, toks, items) == [ty |-> ty, toks |-> toks, items |-> items]
FStr(toks) == FVal("str", toks, <<>>)
FInt(i) == FVal("int", <<N(i)>>, <<>>)
FList(items) == FVal("list", <<>>, items)
Entry(k, v) == [k |-> k, v |-> v]

IsRawKey(k) == k \in {"$raw", "__expr__0", "__expr__1"}
IsLegacyRawKey(k) == k \in {"__expr__0", "__expr__1"}

\* the expressions one raw value contributes; ok = FALSE models the ValueError
RawExprs(v) ==
    IF v.ty = "str" THEN [ok |-> TRUE, exprs |-> <<v.toks>>]
    ELSE IF v.ty \in {"list", "tuple"}
         THEN [ok |-> TRUE,
               exprs |-> LET strs == SelectSeq(v.items, LAMBDA x : x.isStr)
                         IN [i \in 1..Len(strs) |-> strs[i].toks]]
    ELSE [ok |-> FALSE, exprs |-> <<>>]

\* mutant: no string is taken for an expression
_looks_like_expr_never(toks) == FALSE

\* _looks_like_expr
_looks_like_expr(toks) ==
    \E i \in 1..Len(toks) :
        \/ toks[i].c = "p" /\ toks[i].s \in BinOps
        \/ i > 1 /\ i < Len(toks) /\ (IsKw(toks[i], "in") \/ IsKw(toks[i], "between"))
        \/ i > 1 /\ i < Len(toks) /\ IsKw(toks[i], "is") /\ IsKw(toks[i + 1], "null")
        \/ i > 1 /\ i + 1 < Len(toks) /\ IsKw(toks[i], "is") /\ IsKw(toks[i + 1], "not")
              /\ IsKw(toks[i + 2], "null")

\* str(list(v)): [item, item, ...]
ListToks(items) ==
    <<P("[")>> \o [i \in 1..(IF Len(items) = 0 THEN 0 ELSE 2 * Len(items) - 1) |->
                     IF i % 2 = 1 THEN items[(i + 1) \div 2].toks[1] ELSE P(",")] \o <<P("]")>>

\* str(v) of a list, tuple or set
StrToks(v) ==
    LET inner == SubSeq(ListToks(v.items), 2, Len(ListToks(v.items)) - 1)
    IN CASE v.ty = "tuple" -> <<P("(")>> \o inner \o <<P(")")>>
         [] v.ty = "set" -> <<P("{")>> \o inner \o <<P("}")>>
         [] OTHER -> ListToks(v.items)

\* keys that embed an operator: k.endswith(candidate), key = k[:-len(candidate)]
OpSuffix(k) ==
    CASE k = "val>=" -> <<"val", ">=">>
      [] k = "val<=" -> <<"val", "<=">>
      [] k = "val>" -> <<"val", ">">>
      [] k = "val<" -> <<"val", "<">>
      [] k = "val==" -> <<"val", "==">>
      [] OTHER -> <<>>

\* [s.strip() for s in v.split(",") if s.strip()], each name one token
CommaNames(toks) ==
    LET names == SelectSeq(toks, LAMBDA t : t # P(","))
    IN [i \in 1..Len(names) |-> [isStr |-> TRUE, toks |-> <<[c |-> "q", s |-> names[i].s]>>]]

\* the expression of one normalized (non-raw) entry; ok = FALSE models the
\* ValueError of unpacking lo, hi from a range list that has not two elements
NormalExpr(k, v) ==
    IF k \in {"has_mask", "has_masks"} THEN
        [ok |-> TRUE,
         expr |-> IF (v.ty = "bool" /\ v.toks = <<W("True")>>)
                     \/ (v.ty = "int" /\ v.toks # <<N(0)>>)
                     \/ (v.ty = "str" /\ v.toks # <<>>)
                     \/ (v.ty \in {"list", "tuple", "set"} /\ v.items # <<>>)
                  THEN <<W("mask_path"), W("is"), W("not"), W("null")>>
                  ELSE <<W("mask_path"), W("is"), W("null")>>]
    ELSE IF OpSuffix(k) # <<>> THEN
        [ok |-> TRUE,
         expr |-> <<W(OpSuffix(k)[1]), P(OpSuffix(k)[2])>>
                  \o (IF v.ty \in {"list", "tuple", "set"} THEN StrToks(v) ELSE v.toks)]
    ELSE IF v.ty = "str" /\ _looks_like_expr(v.toks) THEN [ok |-> TRUE, expr |-> v.toks]
    ELSE IF v.ty = "str" /\ (\E i \in 1..Len(v.toks) : v.toks[i] = P(",")) /\ v.toks[1] # P("[")
         THEN [ok |-> TRUE, expr |-> <<W(k), P("==")>> \o ListToks(CommaNames(v.toks))]
    ELSE IF v.ty \in {"list", "tuple", "set"}
         THEN [ok |-> TRUE, expr |-> <<W(k), P("==")>> \o ListToks(v.items)]
    ELSE IF v.ty \in {"dict_in", "dict_between"} THEN
        IF Len(v.items) # 2 THEN [ok |-> FALSE, expr |-> <<>>]
        ELSE [ok |-> TRUE,
              expr |-> <<W(k), W(IF v.ty = "dict_in" THEN "in" ELSE "between"), P("[")>>
                       \o v.items[1].toks \o <<P(",")>> \o v.items[2].toks \o <<P("]")>>]
    ELSE [ok |-> TRUE, expr |-> <<W(k), P("==")>> \o v.toks]

RECURSIVE ConcatSeqs(_)
ConcatSeqs(ss) == IF Len(ss) = 0 THEN <<>> ELSE ss[1] \o ConcatSeqs(Tail(ss))

\* filters_to_exprs: raw expressions first ($raw, then legacy keys), then the
\* normalized entries in map order; ok = FALSE models a raised exception
filters_to_exprs(filters) ==
    LET raw == SelectSeq(filters, LAMBDA e : e.k = "$raw")
        legacy == SelectSeq(filters, LAMBDA e : IsLegacyRawKey(e.k))
        normal == SelectSeq(filters, LAMBDA e : ~IsRawKey(e.k))
        raws == raw \o legacy
    IN IF \/ \E i \in 1..Len(raws) : ~RawExprs(raws[i].v).ok
          \/ \E i \in 1..Len(normal) : ~NormalExpr(normal[i].k, normal[i].v).ok
       THEN [ok |-> FALSE, exprs |-> <<>>]
       ELSE [ok |-> TRUE,
             exprs |-> ConcatSeqs([i \in 1..Len(raws) |-> RawExprs(raws[i].v).exprs])
                       \o [i \in 1..Len(normal) |-> NormalExpr(normal[i].k, normal[i].v).expr]]

\* build_order
build_order(sort) ==
    IF sort # None /\ sort[1] # <<>>
    THEN <<"ORDER", "BY">> \o
         JoinSql([i \in 1..Len(sort[1]) |->
                    <<sort[1][i][1], IF sort[1][i][2] = "desc" THEN "DESC" ELSE "ASC">>], ",")
    ELSE <<"ORDER", "BY", "cutout_id", "ASC">>

\* mutant: the offset is bound before the limit
build_limit_offset_swapped(limit, offset) ==
    [sql |-> (IF limit # None THEN <<"LIMIT", "?">> ELSE <<>>)
             \o (IF offset # None THEN <<"OFFSET", "?">> ELSE <<>>),
     params |-> offset \o limit]

\* build_limit_offset
build_limit_offset(limit, offset) ==
    [sql |-> (IF limit # None THEN <<"LIMIT", "?">> ELSE <<>>)
             \o (IF offset # None THEN <<"OFFSET", "?">> ELSE <<>>),
     params |-> limit \o offset]

\* seeded_order_sql
seeded_order_sql ==
    <<"ORDER", "BY", "(", "(", "rowid", "*", "1103515245", "+", ":seed", ")", "&", "0x7fffffff", ")">>

\* random_order_sql
random_order_sql == <<"ORDER", "BY", "RANDOM()">>

(***************************************************************************)
(* The row store.  A row is [rowid, cutout_id, grp, val, ok]; ok = FALSE   *)
(* marks a row whose conversion to a record raises (for instance a path    *)
(* column holding a non-text value).  Rows are held in rowid order.        *)
(***************************************************************************)
Groups == <<"a", "b">>

MkRow(i, g, ok) ==
    [rowid |-> i, cutout_id |-> 10 - i, grp |-> g, val |-> IF i % 2 = 1 THEN 2 ELSE 1, ok |-> ok]

Tables ==
    { [i \in 1..NRows |-> MkRow(i, g[i], i \notin bad)] :
        g \in [1..NRows -> {"a", "b"}],
        bad \in {{}, {1}, {NRows}} }

TableCols == <<"grp", "cutout_id", "val">>

id_column == "cutout_id"

\* the value of a column as an ordering key
NumCol(row, col) ==
    CASE col = "val" -> row.val
      [] col = "cutout_id" -> row.cutout_id
      [] col = "rowid" -> row.rowid
      [] col = "grp" -> CHOOSE i \in 1..Len(Groups) : Groups[i] = row.grp

\* the value of a column as text
TextCol(row, col) == IF col = "grp" THEN row.grp ELSE ToString(NumCol(row, col))

NumOf(text) == CHOOSE i \in 0..20 : ToString(i) = text

\* one fragment of the WHERE clause on one row, ps being the parameters bound
\* to its placeholders in order
EvalPart(part, ps, row) ==
    IF part[1] = "(" \/ part[2] = "IN"
        THEN \E i \in 1..Len(ps) : ps[i].items = <<TextCol(row, IF part[1] = "(" THEN part[2] ELSE part[1])>>
    ELSE IF part[2] = "IS" THEN part[3] = "NOT"
    ELSE IF part[2] = "BETWEEN"
        THEN /\ NumOf(ps[1].items[1]) <= NumCol(row, part[1])
             /\ NumCol(row, part[1]) <= NumOf(ps[2].items[1])
    ELSE CASE part[2] = "=" -> ps[1].items = <<TextCol(row, part[1])>>
           [] part[2] = ">=" -> NumCol(row, part[1]) >= NumOf(ps[1].items[1])
           [] part[2] = "<=" -> NumCol(row, part[1]) <= NumOf(ps[1].items[1])
           [] part[2] = ">" -> NumCol(row, part[1]) > NumOf(ps[1].items[1])
           [] part[2] = "<" -> NumCol(row, part[1]) < NumOf(ps[1].items[1])

NumTokens(toks, tok) == Cardinality({i \in 1..Len(toks) : toks[i] = tok})

RECURSIVE PlaceholdersBefore(_, _)
PlaceholdersBefore(ps, j) ==
    IF j <= 1 THEN 0 ELSE PlaceholdersBefore(ps, j - 1) + NumTokens(ps[j - 1], "?")

\* the rows of tbl that satisfy the AND of the fragments under positional binding
Filtered(tbl, wparts, wparams) ==
    { i \in 1..Len(tbl) :
        \A j \in 1..Len(wparts) :
            EvalPart(wparts[j],
                     SubSeq(wparams, PlaceholdersBefore(wparts, j) + 1,
                            PlaceholdersBefore(wparts, j) + NumTokens(wparts[j], "?")),
                     tbl[i]) }

RECURSIVE Perms(_)
Perms(S) ==
    IF S = {} THEN {<<>>}
    ELSE UNION { { <<x>> \o q : q \in Perms(S \ {x}) } : x \in S }

\* r1 sorts strictly before r2 under ORDER BY sort
RECURSIVE Before(_, _, _)
Before(r1, r2, sort) ==
    IF Len(sort) = 0 THEN FALSE
    ELSE LET a == NumCol(r1, sort[1][1])
             b == NumCol(r2, sort[1][1])
         IN IF a = b THEN Before(r1, r2, Tail(sort))
            ELSE IF sort[1][2] = "desc" THEN a > b ELSE a < b

\* the orders ORDER BY sort can return the rows S in (ties in any order)
Ordered(tbl, S, sort) ==
    { q \in Perms(S) : \A i \in 1..(Len(q) - 1) : ~Before(tbl[q[i + 1]], tbl[q[i]], sort) }

\* LIMIT lim OFFSET off (None: clause absent); a negative limit is no limit
Page(q, lim, off) ==
    LET o == IF off = None \/ off[1] < 0 THEN 0 ELSE off[1]
        rest == SubSeq(q, o + 1, Len(q))
    IN IF lim = None \/ lim[1] < 0 THEN rest ELSE SubSeq(rest, 1, Min(lim[1], Len(rest)))

M31 == 2147483647

\* (a + b) & 0x7fffffff for 0 <= a, b <= 0x7fffffff
AddMod(a, b) == IF a > M31 - b THEN a - (M31 - b) - 1 ELSE a + b

RECURSIVE MulMod(_, _)
\* (r * c) & 0x7fffffff for r >= 0
MulMod(r, c) == IF r = 0 THEN 0 ELSE AddMod(MulMod(r - 1, c), c)

\* seed & 0x7fffffff for -0x80000000 <= seed <= 0x7fffffff
SeedBits(seed) == IF seed >= 0 THEN seed ELSE (seed + M31) + 1

\* a 64-bit integer of SQLite: sign and magnitude, the magnitude being
\* (h2 * 2^31 + h1) * 2^31 + l with h1, l < 2^31
Int64(sign, h2, h1, l) == [sign |-> sign, h2 |-> h2, h1 |-> h1, l |-> l]

\* a seed of less than 32 bits as a 64-bit integer
ToInt64(i) == Int64(IF i < 0 THEN -1 ELSE 1, 0, 0, IF i < 0 THEN -i ELSE i)

RECURSIVE Mul64(_, _)
\* r * c for 0 <= r, c < 2^31 as [h, l], the product being h * 2^31 + l
Mul64(r, c) ==
    IF r = 0 THEN [h |-> 0, l |-> 0]
    ELSE LET half == Mul64(r \div 2, c)
             dc == IF half.l > M31 - half.l THEN 1 ELSE 0
             dl == AddMod(half.l, half.l)
             dh == half.h + half.h + dc
             ac == IF r % 2 = 1 /\ dl > M31 - c THEN 1 ELSE 0
         IN [h |-> dh + ac, l |-> IF r % 2 = 1 THEN AddMod(dl, c) ELSE dl]

\* rowid * 1103515245 + seed leaves the 64-bit integers: SQLite then computes
\* in floating point
Overflows(prod, seed) ==
    LET c0 == IF prod.l > M31 - seed.l THEN 1 ELSE 0
        c1 == IF prod.h > M31 - seed.h1 \/ (c0 = 1 /\ prod.h + seed.h1 = M31)
              THEN 1 ELSE 0
    IN seed.sign = 1 /\ seed.h2 + c1 >= 2

\* ((rowid * 1103515245 + seed) & 0x7fffffff) as SQLite computes it for a
\* 64-bit seed: the low 31 bits of the sum, and 0x7fffffff when the sum
\* overflows (the floating-point sum is cast to the largest integer)
Key64(rowid, seed) ==
    LET prod == Mul64(rowid, 1103515245)
    IN IF Overflows(prod, seed) THEN M31
       ELSE IF seed.sign = 1 THEN AddMod(prod.l, seed.l)
       ELSE IF seed.l = 0 THEN prod.l ELSE AddMod(prod.l, (M31 - seed.l) + 1)

\* mutant: the seed does not enter the key
SeededKey_noseed(rowid, seed) == MulMod(rowid, 1103515245)

\* (rowid * 1103515245 + seed) & 0x7fffffff
SeededKey(rowid, seed) == AddMod(MulMod(rowid, 1103515245), SeedBits(seed))

OrderedByKey(tbl, S, seed) ==
    { q \in Perms(S) :
        \A i \in 1..(Len(q) - 1) :
            SeededKey(tbl[q[i]].rowid, seed) <= SeededKey(tbl[q[i + 1]].rowid, seed) }

\* the partition key of a row under PARTITION BY by
PartKey(row, by) == [i \in 1..Len(by) |-> NumCol(row, by[i])]

RECURSIVE KeyBefore(_, _)
KeyBefore(k1, k2) ==
    IF Len(k1) = 0 THEN FALSE
    ELSE IF k1[1] = k2[1] THEN KeyBefore(Tail(k1), Tail(k2)) ELSE k1[1] < k2[1]

\* ROW_NUMBER() OVER (PARTITION BY by ORDER BY RANDOM()) ... WHERE __rn <= k:
\* partitions come out in key order, each in a random order cut to k rows
RECURSIVE Stratified(_, _, _, _)
Stratified(tbl, S, by, k) ==
    IF S = {} THEN {<<>>}
    ELSE LET keys == {PartKey(tbl[i], by) : i \in S}
             first == CHOOSE x \in keys : \A y \in keys : ~KeyBefore(y, x)
             grp == {i \in S : PartKey(tbl[i], by) = first}
             heads == {SubSeq(q, 1, Min(k, Len(q))) : q \in Perms(grp)}
         IN { h \o t : h \in heads, t \in Stratified(tbl, S \ grp, by, k) }

QuerySpec(filters, projection, sort, limit, offset, sample) ==
    [filters |-> filters, projection |-> projection, sort |-> sort,
     limit |-> limit, offset |-> offset, sample |-> sample]

Raise(e) ==
    [ok |-> FALSE, err |-> e, sql |-> <<>>, wparts |-> <<>>,
     bound |-> [params |-> <<>>, tail |-> <<>>], kind |-> "", order |-> <<>>, paging |-> <<>>, by |-> <<>>]

NoStmt == Raise("")

\* what first() has returned so far
NoResult == [returned |-> FALSE, rec |-> None]

\* AgirDB.__init__: self._conn = None, nothing opened
ConnIdle ==
    /\ _conn = None
    /\ conns = <<>>
    /\ gen = "none"
    /\ gen_con = 0
    /\ log = <<>>

\* no key is being computed
KeyIdle ==
    /\ kseed = <<>>
    /\ kords = <<>>
    /\ kkeys = <<>>
    /\ kpc = "idle"

\* no row is being converted
RecIdle ==
    /\ db_type = "semif"
    /\ data = <<>>
    /\ record = <<>>
    /\ rpc = "idle"

QueryIdle ==
    /\ ConnIdle
    /\ RecIdle
    /\ KeyIdle
    /\ table = <<>>
    /\ spec = QuerySpec(<<>>, None, None, None, None, None)
    /\ pc = "Off"
    /\ projection_cols = <<>>
    /\ stmt = NoStmt
    /\ cur = [rows |-> <<>>, pos |-> 0]
    /\ stats = [rows_scanned |-> 0, rows_returned |-> 0, rows_invalid |-> 0, logged |-> FALSE]
    /\ out = <<>>
    /\ err = ""
    /\ consumer = "for"
    /\ called = None
    /\ result = NoResult
    /\ counted = None

(***************************************************************************)
(* agir_db.py: QueryBuilder.  Python lists are objects on a heap, so that  *)
(* two references to one list see each other's in-place changes.  A        *)
(* filter value is a scalar or a reference to a list object.               *)
(***************************************************************************)
\* filter values: "1" and "2" stand for the integers, "X" and "x" for text
IsStr(v) == v \in {"X", "x"}

\* mutant: values compared as they are spelled
DedupKey_exact(v) == v

\* x.lower() if isinstance(x, str) else x
DedupKey(v) == IF IsStr(v) THEN (IF v = "X" THEN "x" ELSE v) ELSE v

\* the "seen" loop of QueryBuilder.filter
RECURSIVE Dedup(_, _, _)
Dedup(existing, seen, merged) ==
    IF Len(existing) = 0 THEN merged
    ELSE IF DedupKey(existing[1]) \in seen
         THEN Dedup(Tail(existing), seen, merged)
         ELSE Dedup(Tail(existing), seen \cup {DedupKey(existing[1])}, Append(merged, existing[1]))

BKeys == {"a", "$raw"}

Absent == [present |-> FALSE, isList |-> FALSE, ref |-> 0, v |-> ""]
Scalar(v) == [present |-> TRUE, isList |-> FALSE, ref |-> 0, v |-> v]
ListRef(r) == [present |-> TRUE, isList |-> TRUE, ref |-> r, v |-> ""]

HeapSize == 2 * MaxCalls + 2

\* the id of the next list object to be created
NewObj(h) == SetMin({r \in 1..HeapSize : ~h[r].live})

Obj(items) == [live |-> TRUE, items |-> items]

\* QueryBuilder.__init__
NewBuilder ==
    [_filters |-> [k \in BKeys |-> Absent],
     _projection |-> None,
     _sort |-> <<>>,
     _limit_val |-> None,
     _offset_val |-> None,
     _sample_spec |-> None]

NoSpec == [taken |-> FALSE, filters |-> [k \in BKeys |-> Absent], projection |-> None,
           sort |-> None, limit |-> None, offset |-> None, sample |-> None]

BuilderIdle ==
    /\ heap = [r \in 1..HeapSize |-> [live |-> FALSE, items |-> <<>>]]
    /\ builder = NewBuilder
    /\ qspec = NoSpec
    /\ snap = NoSpec
    /\ supplied = [n |-> 0, vals |-> <<>>]
    /\ calls = [n |-> 0, raised |-> FALSE]

\* the contents a reader of the filter value sees
Contents(h, entry) ==
    IF ~entry.present THEN <<>>
    ELSE IF entry.isList THEN h[entry.ref].items ELSE <<entry.v>>

\* arguments of filter(a=...): a scalar, or a list the caller has just built
FilterArgs ==
    { [isList |-> FALSE, items |-> <<v>>] : v \in {"1", "X", "x"} }
    \cup { [isList |-> TRUE, items |-> l] :
             l \in { <<>>, <<"1", "1">>, <<"X", "x">>, <<"x", "2">> } }

\* QueryBuilder.filter(k=arg), the key already present
FilterMerge(k, arg) ==
    LET old == builder._filters[k]
        all == Contents(heap, old) \o arg.items
        \* existing.extend(v) / existing.append(v) on the stored list object
        h1 == IF old.isList THEN [heap EXCEPT ![old.ref] = Obj(all)] ELSE heap
        merged == Dedup(all, {}, <<>>)
    IN IF Len(merged) = 0
       THEN \* merged[0] raises IndexError
            /\ heap' = h1
            /\ calls' = [n |-> calls.n + 1, raised |-> TRUE]
            /\ UNCHANGED builder
       ELSE /\ calls' = [n |-> calls.n + 1, raised |-> FALSE]
            /\ IF Len(merged) > 1
               THEN /\ heap' = [h1 EXCEPT ![NewObj(h1)] = Obj(merged)]
                    /\ builder' = [builder EXCEPT !._filters[k] = ListRef(NewObj(h1))]
               ELSE /\ heap' = h1
                    /\ builder' = [builder EXCEPT !._filters[k] = Scalar(merged[1])]

\* QueryBuilder.filter(k=arg), the key not yet present: the value is stored as given
FilterNew(k, arg) ==
    /\ calls' = [n |-> calls.n + 1, raised |-> FALSE]
    /\ IF arg.isList
       THEN /\ heap' = [heap EXCEPT ![NewObj(heap)] = Obj(arg.items)]
            /\ builder' = [builder EXCEPT !._filters[k] = ListRef(NewObj(heap))]
       ELSE /\ heap' = heap
            /\ builder' = [builder EXCEPT !._filters[k] = Scalar(arg.items[1])]

Filter ==
    /\ calls.n < MaxCalls
    /\ \E arg \in FilterArgs :
          /\ IF builder._filters["a"].present THEN FilterMerge("a", arg) ELSE FilterNew("a", arg)
          /\ supplied' = [n |-> supplied.n + 1, vals |-> supplied.vals \o arg.items]
    /\ UNCHANGED <<qspec, snap>>

\* QueryBuilder.where: self._filters.setdefault("$raw", []).append(expr)
Where ==
    /\ calls.n < MaxCalls
    /\ \E e \in {"e1", "e2"} :
          LET old == builder._filters["$raw"] IN
          IF old.present
          THEN /\ heap' = [heap EXCEPT ![old.ref] = Obj(Append(heap[old.ref].items, e))]
               /\ UNCHANGED builder
          ELSE /\ heap' = [heap EXCEPT ![NewObj(heap)] = Obj(<<e>>)]
               /\ builder' = [builder EXCEPT !._filters["$raw"] = ListRef(NewObj(heap))]
    /\ calls' = [n |-> calls.n + 1, raised |-> FALSE]
    /\ UNCHANGED <<qspec, snap, supplied>>

\* QueryBuilder.select
Select ==
    /\ calls.n < MaxCalls
    /\ \E cols \in {<<"val">>, <<"cutout_id", "val">>} :
          builder' = [builder EXCEPT !._projection =
                         Some((IF builder._projection = None THEN <<>> ELSE builder._projection[1]) \o cols)]
    /\ calls' = [n |-> calls.n + 1, raised |-> FALSE]
    /\ UNCHANGED <<heap, qspec, snap, supplied>>

\* QueryBuilder.sort
Sort ==
    /\ calls.n < MaxCalls
    /\ \E dir \in {"asc", "DESC", "down"} :
          IF dir \in {"asc", "DESC"}
          THEN /\ builder' = [builder EXCEPT !._sort =
                                 Append(builder._sort, <<"val", IF dir = "DESC" THEN "desc" ELSE dir>>)]
               /\ calls' = [n |-> calls.n + 1, raised |-> FALSE]
          ELSE /\ UNCHANGED builder
               /\ calls' = [n |-> calls.n + 1, raised |-> TRUE]
    /\ UNCHANGED <<heap, qspec, snap, supplied>>

\* QueryBuilder.limit
Limit ==
    /\ calls.n < MaxCalls
    /\ \E n \in {1, 2} : builder' = [builder EXCEPT !._limit_val = Some(n)]
    /\ calls' = [n |-> calls.n + 1, raised |-> FALSE]
    /\ UNCHANGED <<heap, qspec, snap, supplied>>

\* QueryBuilder.offset
Offset ==
    /\ calls.n < MaxCalls
    /\ builder' = [builder EXCEPT !._offset_val = Some(1)]
    /\ calls' = [n |-> calls.n + 1, raised |-> FALSE]
    /\ UNCHANGED <<heap, qspec, snap, supplied>>

SampleDict(strategy, n, seed, by, per_group) ==
    [strategy |-> strategy, n |-> n, seed |-> seed, by |-> by, per_group |-> per_group]

\* QueryBuilder.sample_random
SampleRandom ==
    /\ calls.n < MaxCalls
    /\ builder' = [builder EXCEPT !._sample_spec = Some(SampleDict("random", Some(2), None, None, None))]
    /\ calls' = [n |-> calls.n + 1, raised |-> FALSE]
    /\ UNCHANGED <<heap, qspec, snap, supplied>>

\* QueryBuilder.sample_seeded
SampleSeeded ==
    /\ calls.n < MaxCalls
    /\ builder' = [builder EXCEPT !._sample_spec = Some(SampleDict("seeded", Some(2), Some(42), None, None))]
    /\ calls' = [n |-> calls.n + 1, raised |-> FALSE]
    /\ UNCHANGED <<heap, qspec, snap, supplied>>

\* QueryBuilder.sample_stratified
SampleStratified ==
    /\ calls.n < MaxCalls
    /\ \E seed \in {None, Some(7)} :
          builder' = [builder EXCEPT !._sample_spec =
                         Some(SampleDict("stratified", None, seed, Some(<<"grp">>), Some(2)))]
    /\ calls' = [n |-> calls.n + 1, raised |-> FALSE]
    /\ UNCHANGED <<heap, qspec, snap, supplied>>

\* the filters field of QuerySpec(filters=self._filters): validation builds a
\* new dict whose values (typed Any) are the same objects
SpecFilters(h, filters) == filters

\* what a reader of the spec sees
SpecView(h, sp) ==
    [sp EXCEPT !.filters = [k \in BKeys |-> [present |-> sp.filters[k].present,
                                              isList |-> sp.filters[k].isList,
                                              items |-> Contents(h, sp.filters[k])]]]

\* QueryBuilder.to_spec
ToSpec ==
    /\ ~qspec.taken
    /\ qspec' = [taken |-> TRUE,
                 filters |-> SpecFilters(heap, builder._filters),
                 projection |-> builder._projection,
                 sort |-> IF builder._sort = <<>> THEN None ELSE Some(builder._sort),
                 limit |-> builder._limit_val,
                 offset |-> builder._offset_val,
                 sample |-> builder._sample_spec]
    /\ snap' = SpecView(heap, qspec')
    /\ UNCHANGED <<heap, builder, supplied, calls>>

InitBuilder ==
    /\ BuilderIdle
    /\ QueryIdle
    /\ fmap = <<>>
    /\ fpc = "idle"
    /\ exprs = <<>>
    /\ wpc = "idle"
    /\ parts = <<>>
    /\ whereSql = <<>>
    /\ whereParams = <<>>
    /\ werr = <<>>

NextBuilder ==
    \/ (Filter /\ UNCHANGED <<whereVars, queryVars>>)
    \/ (Where /\ UNCHANGED <<whereVars, queryVars>>)
    \/ (Select /\ UNCHANGED <<whereVars, queryVars>>)
    \/ (Sort /\ UNCHANGED <<whereVars, queryVars>>)
    \/ (Limit /\ UNCHANGED <<whereVars, queryVars>>)
    \/ (Offset /\ UNCHANGED <<whereVars, queryVars>>)
    \/ (SampleRandom /\ UNCHANGED <<whereVars, queryVars>>)
    \/ (SampleSeeded /\ UNCHANGED <<whereVars, queryVars>>)
    \/ (SampleStratified /\ UNCHANGED <<whereVars, queryVars>>)
    \/ (ToSpec /\ UNCHANGED <<whereVars, queryVars>>)

SpecBuilder == InitBuilder /\ [][NextBuilder]_vars

(***************************************************************************)
(* agir_db.py: AgirDB.query, a generator.  Calling it runs nothing; the    *)
(* body runs up to the first yield when the consumer asks for the first    *)
(* record.                                                                 *)
(***************************************************************************)
\* mutant: the identifier column is appended
ResolveProjection_append(sp) ==
    LET cols == IF sp.projection = None \/ sp.projection[1] = <<>>
                THEN TableCols ELSE sp.projection[1]
    IN IF \E i \in 1..Len(cols) : cols[i] = id_column THEN cols ELSE cols \o <<id_column>>

\* projection_cols: lines 285-294
ResolveProjection(sp) ==
    LET cols == IF sp.projection = None \/ sp.projection[1] = <<>>
                THEN TableCols ELSE sp.projection[1]
    IN IF \E i \in 1..Len(cols) : cols[i] = id_column THEN cols ELSE <<id_column>> \o cols

Stmt(text, bw, tail, kind, order, paging, by) ==
    [ok |-> TRUE, err |-> "", sql |-> text, wparts |-> bw.parts,
     bound |-> [params |-> bw.params, tail |-> tail],
     kind |-> kind, order |-> order, paging |-> paging, by |-> by]

\* mutant: spec.limit is not consulted
LimitOr0_zero(sp) == 0

\* spec.limit or 0
LimitOr0(sp) == IF sp.limit = None THEN 0 ELSE sp.limit[1]

\* mutant: at least one row is kept per group whatever per_group says
PerGroup_plus(sample) == IF sample.per_group = None THEN 0 ELSE sample.per_group[1] + 1

\* int(sample.get("per_group", 0))
PerGroup(sample) == IF sample.per_group = None THEN 0 ELSE sample.per_group[1]

\* mutant: spec.limit is preferred to sample.n
SampleN_limit_first(sample, sp) ==
    IF sp.limit # None THEN sp.limit[1] ELSE IF sample.n # None THEN sample.n[1] ELSE 0

\* int(sample.get("n", spec.limit or 0))
SampleN(sample, sp) == IF sample.n # None THEN sample.n[1] ELSE LimitOr0(sp)

\* lines 296-348: the statement and its bound parameters, or the error raised
Statement(sp, pcols) ==
    LET fe == filters_to_exprs(sp.filters)
        bw == build_where(fe.exprs)
        sample == IF sp.sample = None
                  THEN SampleDict("none", None, None, None, None) ELSE sp.sample[1]
        strategy == sample.strategy
        cols == JoinSql([i \in 1..Len(pcols) |-> <<pcols[i]>>], ",")
        base_sql == <<"SELECT">> \o cols \o <<"FROM", "semif">> \o bw.sql
        lo == build_limit_offset(sp.limit, sp.offset)
    IN IF ~fe.ok THEN Raise("ValueError")
       ELSE IF ~bw.ok THEN Raise("ValueError")
       ELSE IF strategy = "random" THEN
           LET n == SampleN(sample, sp) IN
           IF n <= 0 THEN Raise("ValueError")
           ELSE Stmt(base_sql \o random_order_sql \o <<"LIMIT", "?">>, bw, <<n>>,
                     "random", random_order_sql, <<"LIMIT", "?">>, <<>>)
       ELSE IF strategy = "seeded" THEN
           LET n == SampleN(sample, sp)
               seed == IF sample.seed # None THEN sample.seed[1] ELSE 0 IN
           IF n <= 0 THEN Raise("ValueError")
           ELSE Stmt(base_sql \o seeded_order_sql \o <<"LIMIT", "?">>, bw, <<seed, n>>,
                     "seeded", seeded_order_sql, <<"LIMIT", "?">>, <<>>)
       ELSE IF strategy = "stratified" THEN
           LET by_cols == IF sample.by = None THEN <<>> ELSE sample.by[1]
               k == PerGroup(sample)
               inner == <<"SELECT">> \o cols
                        \o <<",", "ROW_NUMBER()", "OVER", "(", "PARTITION", "BY">>
                        \o JoinSql([i \in 1..Len(by_cols) |-> <<by_cols[i]>>], ",")
                        \o <<"ORDER", "BY", "RANDOM()", ")", "AS", "__rn", "FROM", "semif">> \o bw.sql
               capped == <<"SELECT", "*", "FROM", "(">> \o inner \o <<")", "WHERE", "__rn", "<=", "?">>
           IN IF by_cols = <<>> THEN Raise("ValueError")
              ELSE IF k <= 0 THEN Raise("ValueError")
              ELSE IF sp.limit # None \/ sp.offset # None
                   THEN Stmt(<<"SELECT", "*", "FROM", "(">> \o capped \o <<")">> \o lo.sql, bw,
                             <<k>> \o lo.params, "stratified", <<>>, lo.sql, by_cols)
                   ELSE Stmt(capped, bw, <<k>>, "stratified", <<>>, <<>>, by_cols)
       ELSE
           LET order_sql == IF sp.sort # None /\ sp.sort[1] # <<>>
                            THEN build_order(sp.sort) ELSE <<"ORDER", "BY", id_column, "ASC">>
           IN Stmt(base_sql \o order_sql \o lo.sql, bw, lo.params, "plain", order_sql, lo.sql, <<>>)

\* nesting depth of parentheses before position i of a statement
Depth(sql, i) ==
    Cardinality({j \in 1..(i - 1) : sql[j] = "("}) - Cardinality({j \in 1..(i - 1) : sql[j] = ")"})

RECURSIVE row_keys(_)
\* row.keys(): the names of the result columns of a statement.  SELECT * FROM
\* (subquery) has the columns of the subquery; otherwise each item of the select
\* list is named by its last word (the column, or the alias after AS)
row_keys(sql) ==
    IF Len(sql) > 4 /\ sql[2] = "*" /\ sql[4] = "("
    THEN row_keys(SubSeq(sql, 5, Len(sql)))
    ELSE LET from == SetMin({i \in 1..Len(sql) : sql[i] = "FROM" /\ Depth(sql, i) = 0})
             ends == {i \in 3..from : Depth(sql, i) = 0 /\ (sql[i] = "," \/ i = from)}
             pos == SelectSeq([i \in 1..from |-> i], LAMBDA i : i \in ends)
         IN [j \in 1..Len(pos) |-> sql[pos[j] - 1]]

\* data = {k: row[k] for k in row.keys()}: the keys of a record's extras
ExtrasKeys(sql) == {row_keys(sql)[i] : i \in 1..Len(row_keys(sql))}

\* the statement parses: SQLite accepts OFFSET only after LIMIT
SyntaxOk(text) ==
    \A i \in 1..Len(text) : text[i] = "OFFSET" => (i > 2 /\ text[i - 2] = "LIMIT")

\* the sort list an ORDER BY c1 D1 , c2 D2 ... clause asks for
SortOf(order_sql) ==
    [i \in 1..((Len(order_sql) - 1) \div 3) |->
        <<order_sql[3 * i], IF order_sql[3 * i + 1] = "DESC" THEN "desc" ELSE "asc">>]

\* the values bound to LIMIT ? and OFFSET ?, the paging parameters being rest
PagingLimit(paging, rest) ==
    IF \E i \in 1..Len(paging) : paging[i] = "LIMIT" THEN Some(rest[1]) ELSE None

PagingOffset(paging, rest) ==
    IF \E i \in 1..Len(paging) : paging[i] = "OFFSET" THEN Some(rest[Len(rest)]) ELSE None

\* con.execute(sql, bound): the sequences of rowids the cursor can deliver
Results(tbl, st) ==
    LET F == Filtered(tbl, st.wparts, st.bound.params)
        t == st.bound.tail
    IN CASE st.kind = "random" -> { Page(q, PagingLimit(st.paging, t), None) : q \in Perms(F) }
         [] st.kind = "seeded" ->
              { Page(q, PagingLimit(st.paging, Tail(t)), None) : q \in OrderedByKey(tbl, F, t[1]) }
         [] st.kind = "stratified" ->
              { Page(q, PagingLimit(st.paging, Tail(t)), PagingOffset(st.paging, Tail(t))) :
                  q \in Stratified(tbl, F, st.by, t[1]) }
         [] st.kind = "plain" ->
              { Page(q, PagingLimit(st.paging, t), PagingOffset(st.paging, t)) :
                  q \in Ordered(tbl, F, SortOf(st.order)) }

\* query(spec): the generator object is created, its body has not started
CallQuery ==
    /\ pc = "Idle"
    /\ pc' = "Created"
    /\ called' = Some(spec)
    /\ UNCHANGED <<table, spec, projection_cols, stmt, cur, stats, out, err>>
    /\ UNCHANGED <<consumer, result, counted>>

\* between the call and the first next() the caller assigns spec.limit
SetLimit ==
    /\ pc = "Created"
    /\ consumer = "for"
    /\ spec.limit = Some(2)
    /\ spec' = [spec EXCEPT !.limit = Some(1)]
    /\ UNCHANGED <<table, pc, projection_cols, stmt, cur, stats, out, err>>

\* first next(): lines 280-294
BeginCompile ==
    /\ pc = "Created"
    /\ pc' = "Compiling"
    /\ stats' = [rows_scanned |-> 0, rows_returned |-> 0, rows_invalid |-> 0, logged |-> FALSE]
    /\ projection_cols' = ResolveProjection(spec)
    /\ UNCHANGED <<table, spec, stmt, cur, out, err>>

\* lines 296-348 raise ValueError
CompileRaise ==
    /\ pc = "Compiling"
    /\ ~Statement(spec, projection_cols).ok
    /\ pc' = "Failed"
    /\ err' = Statement(spec, projection_cols).err
    /\ UNCHANGED <<table, spec, projection_cols, stmt, cur, stats, out>>

\* line 351: the store rejects the statement
ExecuteRaise ==
    /\ pc = "Compiling"
    /\ Statement(spec, projection_cols).ok
    /\ ~SyntaxOk(Statement(spec, projection_cols).sql)
    /\ stmt' = Statement(spec, projection_cols)
    /\ pc' = "Failed"
    /\ err' = "OperationalError"
    /\ UNCHANGED <<table, spec, projection_cols, cur, stats, out>>

\* line 351: the cursor is opened
Execute ==
    /\ pc = "Compiling"
    /\ Statement(spec, projection_cols).ok
    /\ SyntaxOk(Statement(spec, projection_cols).sql)
    /\ stmt' = Statement(spec, projection_cols)
    /\ \E rows \in Results(table, Statement(spec, projection_cols)) :
          cur' = [rows |-> rows, pos |-> 0]
    /\ pc' = "Streaming"
    /\ UNCHANGED <<table, spec, projection_cols, stats, out, err>>

NextRow == table[cur.rows[cur.pos + 1]]

\* lines 352-357: the next row converts and is yielded
ScanYield ==
    /\ pc = "Streaming"
    /\ cur.pos < Len(cur.rows)
    /\ NextRow.ok
    /\ cur' = [cur EXCEPT !.pos = @ + 1]
    /\ stats' = [stats EXCEPT !.rows_scanned = @ + 1, !.rows_returned = @ + 1]
    /\ out' = Append(out, NextRow.rowid)
    /\ pc' = "Yielded"
    /\ UNCHANGED <<table, spec, projection_cols, stmt, err>>

\* lines 352-360: the conversion raises; the handler counts the row and then
\* calls row.get, which sqlite3.Row does not have, so AttributeError leaves
\* the generator
ScanInvalid ==
    /\ pc = "Streaming"
    /\ cur.pos < Len(cur.rows)
    /\ ~NextRow.ok
    /\ cur' = [cur EXCEPT !.pos = @ + 1]
    /\ stats' = [stats EXCEPT !.rows_scanned = @ + 1, !.rows_invalid = @ + 1]
    /\ pc' = "Failed"
    /\ err' = "AttributeError"
    /\ UNCHANGED <<table, spec, projection_cols, stmt, out>>

\* the consumer asks for the next record
Resume ==
    /\ pc = "Yielded"
    /\ consumer = "for"
    /\ pc' = "Streaming"
    /\ UNCHANGED <<table, spec, projection_cols, stmt, cur, stats, out, err>>

\* the consumer breaks out of its loop: the generator is closed at its yield
Close ==
    /\ pc = "Yielded"
    /\ consumer = "for"
    /\ pc' = "Closed"
    /\ UNCHANGED <<table, spec, projection_cols, stmt, cur, stats, out, err>>

\* QueryBuilder.first: return rec from inside the loop, which drops and so
\* closes the generator
FirstReturn ==
    /\ pc = "Yielded"
    /\ consumer = "first"
    /\ pc' = "Closed"
    /\ result' = [returned |-> TRUE, rec |-> Some(out[Len(out)])]
    /\ UNCHANGED <<table, spec, projection_cols, stmt, cur, stats, out, err>>
    /\ UNCHANGED <<consumer, called, counted>>

\* QueryBuilder.first: the loop ended without a record, return None
FirstNone ==
    /\ pc = "Done"
    /\ consumer = "first"
    /\ ~result.returned
    /\ result' = [returned |-> TRUE, rec |-> None]
    /\ UNCHANGED <<table, spec, pc, projection_cols, stmt, cur, stats, out, err>>
    /\ UNCHANGED <<consumer, called, counted>>

\* lines 362-366: the cursor is exhausted, the statistics are logged
Finish ==
    /\ pc = "Streaming"
    /\ cur.pos = Len(cur.rows)
    /\ stats' = [stats EXCEPT !.logged = TRUE]
    /\ pc' = "Done"
    /\ UNCHANGED <<table, spec, projection_cols, stmt, cur, out, err>>

\* mutant: the WHERE clause is left out of the COUNT statement
count_all(tbl, sp) ==
    LET fe == filters_to_exprs(sp.filters)
        bw == build_where(fe.exprs)
    IN IF ~fe.ok \/ ~bw.ok THEN [ok |-> FALSE, n |-> 0]
       ELSE [ok |-> TRUE, n |-> Len(tbl)]

\* AgirDB.count: SELECT COUNT(*) over the compiled WHERE clause; ok = FALSE
\* models the ValueError of a filter that does not compile
count(tbl, sp) ==
    LET fe == filters_to_exprs(sp.filters)
        bw == build_where(fe.exprs)
    IN IF ~fe.ok \/ ~bw.ok THEN [ok |-> FALSE, n |-> 0]
       ELSE [ok |-> TRUE, n |-> Cardinality(Filtered(tbl, bw.parts, bw.params))]

\* count(spec), called once the query has ended
CallCount ==
    /\ pc \in {"Done", "Closed", "Failed"}
    /\ counted = None
    /\ counted' = Some(count(table, spec))
    /\ UNCHANGED <<table, spec, pc, projection_cols, stmt, cur, stats, out, err>>
    /\ UNCHANGED <<consumer, called, result>>

(***************************************************************************)
(* Inputs of the executor                                                  *)
(***************************************************************************)
RawList(es) == FList([i \in 1..Len(es) |-> [isStr |-> TRUE, toks |-> es[i]]])

GoodFilters ==
    { <<>>,
      <<Entry("grp", FStr(<<W("a")>>))>>,
      <<Entry("$raw", RawList(<<<<W("val"), P(">="), N(2)>>>>))>> }

BadFilters ==
    { <<Entry("$raw", RawList(<<<<W("val"), P("="), N(2)>>>>))>>,
      <<Entry("grp", FStr(<<W("a")>>)), Entry("$raw", FInt(5))>> }

GoodSamples ==
    { Some(SampleDict("random", Some(2), None, None, None)),
      Some(SampleDict("random", None, None, None, None)),
      Some(SampleDict("random", Some(1), None, None, None)),
      Some(SampleDict("seeded", Some(2), Some(7), None, None)),
      Some(SampleDict("seeded", Some(3), Some(1000000000), None, None)),
      Some(SampleDict("seeded", Some(2), Some(-1), None, None)),
      Some(SampleDict("seeded", None, None, None, None)),
      Some(SampleDict("stratified", None, None, Some(<<"grp">>), Some(2))),
      Some(SampleDict("stratified", None, None, Some(<<"grp", "val">>), Some(1))) }

BadSamples ==
    { Some(SampleDict("random", Some(0), None, None, None)),
      Some(SampleDict("seeded", Some(-1), Some(7), None, None)),
      Some(SampleDict("stratified", None, None, Some(<<>>), Some(2))),
      Some(SampleDict("stratified", None, None, None, Some(2))),
      Some(SampleDict("stratified", None, None, Some(<<"grp">>), Some(0))),
      Some(SampleDict("stratified", None, None, Some(<<"grp">>), None)) }

Projections ==
    { None, Some(<<>>), Some(<<"val">>), Some(<<"val", "grp">>), Some(<<"cutout_id", "val">>),
      Some(<<"val", "cutout_id">>), Some(<<"cutout_id", "val", "cutout_id">>) }

Sorts == { None, Some(<<<<"val", "desc">>>>), Some(<<<<"grp", "asc">>, <<"val", "asc">>>>) }

QuerySpecs ==
    \* paging without a sample
    { QuerySpec(f, None, s, l, o, None) :
        f \in GoodFilters, s \in Sorts, l \in {None, Some(0), Some(2)}, o \in {None, Some(1)} }
    \cup \* sampling
    { QuerySpec(f, None, None, l, o, sm) :
        f \in {<<>>, <<Entry("grp", FStr(<<W("a")>>))>>}, l \in {None, Some(2)},
        o \in {None, Some(1)}, sm \in GoodSamples \cup BadSamples }
    \cup \* projections
    { QuerySpec(<<>>, pr, None, None, None, sm) :
        pr \in Projections,
        sm \in {None, Some(SampleDict("random", Some(2), None, None, None)),
                Some(SampleDict("seeded", Some(2), Some(7), None, None)),
                Some(SampleDict("stratified", None, None, Some(<<"grp">>), Some(2)))} }
    \cup \* sampling with a sort, a limit and an offset
    { QuerySpec(<<Entry("grp", FStr(<<W("a")>>))>>, None, Some(<<<<"val", "desc">>>>), Some(2), Some(1), sm) :
        sm \in {Some(SampleDict("random", Some(1), None, None, None)),
                Some(SampleDict("seeded", Some(2), Some(7), None, None)),
                Some(SampleDict("stratified", None, Some(7), Some(<<"grp">>), Some(2)))} }
    \cup \* malformed filters
    { QuerySpec(f, None, None, None, None, sm) :
        f \in BadFilters,
        sm \in {None, Some(SampleDict("random", Some(2), None, None, None)),
                Some(SampleDict("stratified", None, None, Some(<<"grp">>), Some(2)))} }

InitQuery ==
    /\ table \in Tables
    /\ spec \in QuerySpecs
    /\ pc = "Idle"
    /\ projection_cols = <<>>
    /\ stmt = NoStmt
    /\ cur = [rows |-> <<>>, pos |-> 0]
    /\ stats = [rows_scanned |-> 0, rows_returned |-> 0, rows_invalid |-> 0, logged |-> FALSE]
    /\ out = <<>>
    /\ err = ""
    /\ consumer \in {"for", "first"}
    /\ called = None
    /\ result = NoResult
    /\ counted = None
    /\ ConnIdle
    /\ RecIdle
    /\ KeyIdle
    /\ BuilderIdle
    /\ fmap = <<>>
    /\ fpc = "idle"
    /\ exprs = <<>>
    /\ wpc = "idle"
    /\ parts = <<>>
    /\ whereSql = <<>>
    /\ whereParams = <<>>
    /\ werr = <<>>

NextQuery ==
    \/ (CallQuery /\ UNCHANGED <<connVars, recVars, keyVars, whereVars, builderVars>>)
    \/ (SetLimit /\ UNCHANGED <<connVars, recVars, keyVars, whereVars, builderVars, callerVars>>)
    \/ (BeginCompile /\ UNCHANGED <<connVars, recVars, keyVars, whereVars, builderVars, callerVars>>)
    \/ (CompileRaise /\ UNCHANGED <<connVars, recVars, keyVars, whereVars, builderVars, callerVars>>)
    \/ (ExecuteRaise /\ UNCHANGED <<connVars, recVars, keyVars, whereVars, builderVars, callerVars>>)
    \/ (Execute /\ UNCHANGED <<connVars, recVars, keyVars, whereVars, builderVars, callerVars>>)
    \/ (ScanYield /\ UNCHANGED <<connVars, recVars, keyVars, whereVars, builderVars, callerVars>>)
    \/ (ScanInvalid /\ UNCHANGED <<connVars, recVars, keyVars, whereVars, builderVars, callerVars>>)
    \/ (Resume /\ UNCHANGED <<connVars, recVars, keyVars, whereVars, builderVars, callerVars>>)
    \/ (Close /\ UNCHANGED <<connVars, recVars, keyVars, whereVars, builderVars, callerVars>>)
    \/ (FirstReturn /\ UNCHANGED <<connVars, recVars, keyVars, whereVars, builderVars>>)
    \/ (FirstNone /\ UNCHANGED <<connVars, recVars, keyVars, whereVars, builderVars>>)
    \/ (Finish /\ UNCHANGED <<connVars, recVars, keyVars, whereVars, builderVars, callerVars>>)
    \/ (CallCount /\ UNCHANGED <<connVars, recVars, keyVars, whereVars, builderVars>>)

SpecQuery == InitQuery /\ [][NextQuery]_vars

(***************************************************************************)
(* Inputs of the WHERE compiler                                            *)
(***************************************************************************)
ListLit(n) ==
    <<P("[")>> \o [i \in 1..(IF n = 0 THEN 0 ELSE 2 * n - 1) |->
                     IF i % 2 = 1 THEN N((i + 1) \div 2) ELSE P(",")] \o <<P("]")>>

ListLens == {0, 1, 2, IN_CHUNK, IN_CHUNK + 1, 2 * IN_CHUNK + 1}

ExprPool ==
    { <<W("k"), W("is"), W("null")>>,
      <<W("k"), W("is"), W("not"), W("null")>>,
      <<W("k"), W("in"), P("["), N(3), P(","), N(9), P("]")>>,
      <<W("k"), W("between"), P("["), N(4), P(","), N(8), P("]")>>,
      <<W("k"), W("in"), P("["), N(1), P(","), N(2), P(","), N(3), P("]")>>,
      <<W("k"), W("between"), N(5), W("and"), N(7)>>,
      <<W("k"), W("between"), P("["), N(1), P(","), N(2), P("]"), W("and"),
        P("["), N(3), P(","), N(4), P("]")>>,
      <<W("j"), P("=="), N(6)>>,
      <<W("j"), P("=="), [c |-> "q", s |-> "x' OR 1=1; --"]>>,
      <<W("m"), P("=="), P("["), N(8), P(","), N(9), P("]")>>,
      <<W("j"), P(">="), N(6)>>,
      <<W("j"), P("<"), W("barley")>>,
      <<W("j"), P("=="), N(1), P(","), N(2)>>,
      <<W("j"), P("="), N(6)>>,
      <<W("j")>> }
    \cup { <<W("m"), P("==")>> \o ListLit(n) : n \in ListLens }

ExprLists == UNION { [1..n -> ExprPool] : n \in 0..MaxExprs }

InitWhere ==
    /\ fmap = <<>>
    /\ fpc = "idle"
    /\ exprs \in ExprLists
    /\ wpc = "start"
    /\ parts = <<>>
    /\ whereSql = <<>>
    /\ whereParams = <<>>
    /\ werr = <<>>
    /\ BuilderIdle
    /\ QueryIdle

BuildWhereOk ==
    /\ wpc = "start"
    /\ LET bw == build_where(exprs)
       IN /\ bw.ok
          /\ parts' = bw.parts
          /\ whereSql' = bw.sql
          /\ whereParams' = bw.params
    /\ wpc' = "done"
    /\ UNCHANGED <<fmap, fpc, exprs, werr>>
    /\ UNCHANGED builderVars
    /\ UNCHANGED queryVars

BuildWhereRaise ==
    /\ wpc = "start"
    /\ ~build_where(exprs).ok
    /\ wpc' = "error"
    /\ werr' = build_where(exprs).err
    /\ UNCHANGED <<fmap, fpc, exprs, parts, whereSql, whereParams>>
    /\ UNCHANGED builderVars
    /\ UNCHANGED queryVars

NextWhere == BuildWhereOk \/ BuildWhereRaise

SpecWhere == InitWhere /\ [][NextWhere]_vars

(***************************************************************************)
(* agir_db.py: the connection handle of one AgirDB instance.  conns[i] is  *)
(* the state of the i-th connection ever opened, _conn the handle the      *)
(* instance holds, gen the state of one generator returned by query and    *)
(* gen_con the connection its cursor belongs to, log the calls made.       *)
(***************************************************************************)
\* mutant: a connection is opened on every use
_get_connection_always(c, cs) ==
    [conn |-> Some(Len(cs) + 1), conns |-> Append(cs, "open")]

\* AgirDB._get_connection
_get_connection(c, cs) ==
    IF c = None THEN [conn |-> Some(Len(cs) + 1), conns |-> Append(cs, "open")]
    ELSE [conn |-> c, conns |-> cs]

\* query(spec): a generator object, no statement of the body has run
ConnQuery ==
    /\ Len(log) < MaxOps
    /\ gen \in {"none", "ended", "failed"}
    /\ gen' = "created"
    /\ gen_con' = 0
    /\ log' = Append(log, "query")
    /\ UNCHANGED <<_conn, conns>>

\* first next() of the generator: con = self._get_connection(), con.execute
ConnFirstNext ==
    /\ Len(log) < MaxOps
    /\ gen = "created"
    /\ LET g == _get_connection(_conn, conns)
       IN /\ _conn' = g.conn
          /\ conns' = g.conns
          /\ gen_con' = g.conn[1]
    /\ gen' \in {"running", "ended"}
    /\ log' = Append(log, "next")

\* a later next(): the cursor steps on the connection it was created on,
\* which raises when that connection has been closed
ConnNext ==
    /\ Len(log) < MaxOps
    /\ gen = "running"
    /\ IF conns[gen_con] = "open" THEN gen' \in {"running", "ended"} ELSE gen' = "failed"
    /\ log' = Append(log, "next")
    /\ UNCHANGED <<_conn, conns, gen_con>>

\* count(spec)
ConnCount ==
    /\ Len(log) < MaxOps
    /\ LET g == _get_connection(_conn, conns)
       IN _conn' = g.conn /\ conns' = g.conns
    /\ log' = Append(log, "count")
    /\ UNCHANGED <<gen, gen_con>>

\* get(record_id): a query consumed up to its first record
ConnGet ==
    /\ Len(log) < MaxOps
    /\ LET g == _get_connection(_conn, conns)
       IN _conn' = g.conn /\ conns' = g.conns
    /\ log' = Append(log, "get")
    /\ UNCHANGED <<gen, gen_con>>

\* preview(spec, n): list(self.query(spec))
ConnPreview ==
    /\ Len(log) < MaxOps
    /\ LET g == _get_connection(_conn, conns)
       IN _conn' = g.conn /\ conns' = g.conns
    /\ log' = Append(log, "preview")
    /\ UNCHANGED <<gen, gen_con>>

\* AgirDB.close
ConnClose ==
    /\ Len(log) < MaxOps
    /\ IF _conn # None
       THEN /\ conns' = [conns EXCEPT ![_conn[1]] = "closed"]
            /\ _conn' = None
       ELSE UNCHANGED <<_conn, conns>>
    /\ log' = Append(log, "close")
    /\ UNCHANGED <<gen, gen_con>>

InitConn ==
    /\ QueryIdle
    /\ BuilderIdle
    /\ fmap = <<>>
    /\ fpc = "idle"
    /\ exprs = <<>>
    /\ wpc = "idle"
    /\ parts = <<>>
    /\ whereSql = <<>>
    /\ whereParams = <<>>
    /\ werr = <<>>

ConnRest ==
    UNCHANGED <<whereVars, builderVars, table, spec, pc, projection_cols, stmt, cur, stats, out, err,
                consumer, called, result, counted, recVars, keyVars>>

NextConn ==
    \/ (ConnQuery /\ ConnRest)
    \/ (ConnFirstNext /\ ConnRest)
    \/ (ConnNext /\ ConnRest)
    \/ (ConnCount /\ ConnRest)
    \/ (ConnGet /\ ConnRest)
    \/ (ConnPreview /\ ConnRest)
    \/ (ConnClose /\ ConnRest)

SpecConn == InitConn /\ [][NextConn]_vars

(***************************************************************************)
(* agir_db.py: the record adapters.  A row is a function from the store's  *)
(* columns to values [ty, s]: ty is "absent" (the column is not in the     *)
(* row), "null", "text" or "int", s the text of the value.                 *)
(***************************************************************************)
Missing == [ty |-> "absent", s |-> ""]
Null == [ty |-> "null", s |-> ""]
TextV(s) == [ty |-> "text", s |-> s]
IntV(s) == [ty |-> "int", s |-> s]

\* data.get(col)
Get(d, col) == IF d[col].ty = "absent" THEN Null ELSE d[col]

\* the truth value Python gives a column value
Bool(v) == (v.ty = "text" /\ v.s # "") \/ (v.ty = "int" /\ v.s # "0")

\* str(v)
Str(v) == IF v.ty = "null" THEN "None" ELSE v.s

\* Path(v) raises TypeError unless v is text
PathOk(v) == v.ty = "text"

\* the dict built from the row: the columns that are present
Extras(d) == {<<c, d[c]>> : c \in {x \in DOMAIN d : d[x].ty # "absent"}}

SemifAux == {"cutout_path", "cutout_mask_path", "cutout_json_path", "cropout_path"}
SemifCols == {"cutout_id", "image_id", "image_path", "mask_path", "json_path"} \cup SemifAux

FieldAux == {"raw_image_path", "developed_image_path", "cutout_image_path",
             "final_cutout_path", "final_mask_path"}
FieldCols == {"id", "image_id"} \cup FieldAux

ImageRecord(cutout_id, image_id, image_path, mask_path, json_path, aux_paths, extras) ==
    [cutout_id |-> cutout_id, image_id |-> image_id, image_path |-> image_path,
     mask_path |-> mask_path, json_path |-> json_path, aux_paths |-> aux_paths,
     extras |-> extras]

\* Path(data[col]) if data.get(col) else None
PathField(d, col) == IF Bool(Get(d, col)) THEN Some(Get(d, col).s) ELSE None

\* _semif_row_to_record: ok = FALSE models the TypeError of Path(p)
_semif_row_to_record(d) ==
    IF \E col \in SemifAux \cup {"image_path", "mask_path", "json_path"} :
          Bool(Get(d, col)) /\ ~PathOk(Get(d, col))
    THEN [ok |-> FALSE, err |-> "TypeError", rec |-> <<>>]
    ELSE [ok |-> TRUE, err |-> "",
          rec |-> ImageRecord(Str(Get(d, "cutout_id")),
                              IF Bool(Get(d, "image_id")) THEN Some(Str(Get(d, "image_id"))) ELSE None,
                              PathField(d, "image_path"),
                              PathField(d, "mask_path"),
                              PathField(d, "json_path"),
                              {<<col, Get(d, col).s>> : col \in {c \in SemifAux : Bool(Get(d, c))}},
                              Extras(d))]

\* the first truthy candidate of the field adapter, None when there is none
BestImage(d) ==
    IF Bool(Get(d, "developed_image_path")) THEN Get(d, "developed_image_path")
    ELSE IF Bool(Get(d, "raw_image_path")) THEN Get(d, "raw_image_path")
    ELSE IF Bool(Get(d, "cutout_image_path")) THEN Get(d, "cutout_image_path")
    ELSE Get(d, "final_cutout_path")

\* _field_row_to_record: ok = FALSE models the TypeError of Path(p)
_field_row_to_record(d) ==
    IF \E col \in FieldAux : Bool(Get(d, col)) /\ ~PathOk(Get(d, col))
    THEN [ok |-> FALSE, err |-> "TypeError", rec |-> <<>>]
    ELSE [ok |-> TRUE, err |-> "",
          rec |-> ImageRecord(Str(Get(d, "id")),
                              IF Bool(Get(d, "image_id")) THEN Some(Str(Get(d, "image_id"))) ELSE None,
                              IF Bool(BestImage(d)) THEN Some(BestImage(d).s) ELSE None,
                              PathField(d, "final_mask_path"),
                              None,
                              {<<col, Get(d, col).s>> : col \in {c \in FieldAux : Bool(Get(d, c))}},
                              Extras(d))]

\* _row_to_record
_row_to_record(t, d) ==
    IF t = "semif" THEN _semif_row_to_record(d)
    ELSE IF t = "field" THEN _field_row_to_record(d)
    ELSE [ok |-> FALSE, err |-> "ValueError", rec |-> <<>>]

IdVals == {Missing, Null, IntV("7")}
PathVals == {Missing, Null, TextV(""), TextV("a.png"), IntV("5")}

\* rows of a semif store and of a field store
SemifRows ==
    { [c \in SemifCols |->
         CASE c = "cutout_id" -> i [] c = "image_id" -> j [] c = "image_path" -> p
           [] c = "mask_path" -> m [] c = "cutout_path" -> a [] OTHER -> Missing] :
        i \in IdVals, j \in IdVals, p \in PathVals, m \in PathVals, a \in PathVals }

FieldRows ==
    { [c \in FieldCols |->
         CASE c = "id" -> i [] c = "image_id" -> j [] c = "developed_image_path" -> p
           [] c = "raw_image_path" -> m [] c = "final_mask_path" -> a [] OTHER -> Missing] :
        i \in IdVals, j \in IdVals, p \in PathVals, m \in PathVals, a \in PathVals }

InitRecord ==
    /\ db_type \in {"semif", "field"}
    /\ data \in (IF db_type = "semif" THEN SemifRows ELSE FieldRows)
    /\ record = <<>>
    /\ rpc = "start"
    /\ ConnIdle
    /\ KeyIdle
    /\ table = <<>>
    /\ spec = QuerySpec(<<>>, None, None, None, None, None)
    /\ pc = "Off"
    /\ projection_cols = <<>>
    /\ stmt = NoStmt
    /\ cur = [rows |-> <<>>, pos |-> 0]
    /\ stats = [rows_scanned |-> 0, rows_returned |-> 0, rows_invalid |-> 0, logged |-> FALSE]
    /\ out = <<>>
    /\ err = ""
    /\ consumer = "for"
    /\ called = None
    /\ result = NoResult
    /\ counted = None
    /\ BuilderIdle
    /\ fmap = <<>>
    /\ fpc = "idle"
    /\ exprs = <<>>
    /\ wpc = "idle"
    /\ parts = <<>>
    /\ whereSql = <<>>
    /\ whereParams = <<>>
    /\ werr = <<>>

RecRest ==
    UNCHANGED <<whereVars, builderVars, table, spec, pc, projection_cols, stmt, cur, stats, out, err,
                consumer, called, result, counted, connVars, keyVars>>

\* _row_to_record returns the record
Convert ==
    /\ rpc = "start"
    /\ _row_to_record(db_type, data).ok
    /\ record' = _row_to_record(db_type, data).rec
    /\ rpc' = "done"
    /\ UNCHANGED <<db_type, data>>
    /\ RecRest

\* _row_to_record raises
ConvertRaise ==
    /\ rpc = "start"
    /\ ~_row_to_record(db_type, data).ok
    /\ rpc' = "error"
    /\ UNCHANGED <<db_type, data, record>>
    /\ RecRest

NextRecord == Convert \/ ConvertRaise

SpecRecord == InitRecord /\ [][NextRecord]_vars

(***************************************************************************)
(* filters.py, agir_db.py: the key of the seeded order for two rows        *)
(***************************************************************************)
Seeds ==
    { ToInt64(0), ToInt64(7), ToInt64(42), ToInt64(-1), ToInt64(1000000000), ToInt64(M31),
      Int64(1, 0, 1, 0),                \* 2^31
      Int64(1, 1, 0, 0),                \* 2^62
      Int64(-1, 1, M31, M31),           \* -(2^63 - 1)
      Int64(1, 1, M31, M31) }           \* 2^63 - 1

Ordinals == {0, 1, 2, 3, 4, 65536, 1073741824, M31}

InitKey ==
    /\ kseed \in Seeds
    /\ kords \in {<<a, b>> : a, b \in Ordinals}
    /\ kkeys = <<>>
    /\ kpc = "start"
    /\ ConnIdle
    /\ RecIdle
    /\ table = <<>>
    /\ spec = QuerySpec(<<>>, None, None, None, None, None)
    /\ pc = "Off"
    /\ projection_cols = <<>>
    /\ stmt = NoStmt
    /\ cur = [rows |-> <<>>, pos |-> 0]
    /\ stats = [rows_scanned |-> 0, rows_returned |-> 0, rows_invalid |-> 0, logged |-> FALSE]
    /\ out = <<>>
    /\ err = ""
    /\ consumer = "for"
    /\ called = None
    /\ result = NoResult
    /\ counted = None
    /\ BuilderIdle
    /\ fmap = <<>>
    /\ fpc = "idle"
    /\ exprs = <<>>
    /\ wpc = "idle"
    /\ parts = <<>>
    /\ whereSql = <<>>
    /\ whereParams = <<>>
    /\ werr = <<>>

\* the ORDER BY expression is evaluated for the two rows
ComputeKeys ==
    /\ kpc = "start"
    /\ kkeys' = <<Key64(kords[1], kseed), Key64(kords[2], kseed)>>
    /\ kpc' = "done"
    /\ UNCHANGED <<kseed, kords>>
    /\ UNCHANGED <<whereVars, builderVars, table, spec, pc, projection_cols, stmt, cur, stats, out, err,
                   consumer, called, result, counted, connVars, recVars>>

NextKey == ComputeKeys

SpecKey == InitKey /\ [][NextKey]_vars

(***************************************************************************)
(* Inputs of filters_to_exprs, and the pipeline                            *)
(* build_where(filters_to_exprs(filters)) of AgirDB.query and AgirDB.count *)
(***************************************************************************)
FItem(t) == [isStr |-> t.c \in {"w", "q"}, toks |-> <<t>>]

FDict(ty, toks) == FVal(ty, <<>>, [i \in 1..Len(toks) |-> FItem(toks[i])])

EntryPool ==
    { Entry("grp", FStr(<<W("a")>>)),
      Entry("grp", FStr(<<W("a"), P(","), W("b")>>)),
      Entry("grp", FList(<<FItem([c |-> "q", s |-> "a"]), FItem([c |-> "q", s |-> "b"])>>)),
      Entry("val", FInt(2)),
      Entry("val", FDict("dict_in", <<N(1), N(2)>>)),
      Entry("val", FDict("dict_in", <<N(1), N(2), N(3)>>)),
      Entry("val", FDict("dict_between", <<N(1)>>)),
      Entry("val>=", FInt(1)),
      Entry("has_mask", FVal("bool", <<W("True")>>, <<>>)),
      Entry("has_masks", FList(<<>>)),
      Entry("val>=", FStr(<<W("x"), P("=="), N(1)>>)),
      Entry("val>=", FList(<<FItem(N(1)), FItem(N(2))>>)),
      Entry("grp", FStr(<<W("a"), P(","), W("b"), P(">"), W("c")>>)),
      Entry("grp", FStr(<<P("["), W("a"), P(","), W("b"), P("]")>>)),
      Entry("val", FStr(<<W("val"), W("between"), N(1), W("and"), N(2)>>)),
      Entry("$raw", FStr(<<W("val"), P("<"), N(2)>>)),
      Entry("$raw", RawList(<<<<W("val"), P(">="), N(2)>>, <<W("grp"), W("is"), W("not"), W("null")>>>>)),
      Entry("$raw", RawList(<<<<W("val"), P("="), N(2)>>>>)),
      Entry("$raw", FInt(5)),
      Entry("__expr__0", FStr(<<W("val"), P("=="), N(1)>>)),
      Entry("__expr__1", FVal("NoneType", <<W("None")>>, <<>>)) }

\* filter maps: entries in insertion order, keys distinct
FilterMaps ==
    UNION { { m \in [1..n -> EntryPool] : \A i, j \in 1..n : i # j => m[i].k # m[j].k } :
              n \in 0..MaxEntries }

InitNormalize ==
    /\ fmap \in FilterMaps
    /\ fpc = "start"
    /\ exprs = <<>>
    /\ wpc = "idle"
    /\ parts = <<>>
    /\ whereSql = <<>>
    /\ whereParams = <<>>
    /\ werr = <<>>
    /\ BuilderIdle
    /\ QueryIdle

\* filters_to_exprs returns; its result is handed to build_where
NormalizeOk ==
    /\ fpc = "start"
    /\ filters_to_exprs(fmap).ok
    /\ fpc' = "done"
    /\ exprs' = filters_to_exprs(fmap).exprs
    /\ wpc' = "start"
    /\ UNCHANGED <<fmap, parts, whereSql, whereParams, werr>>
    /\ UNCHANGED builderVars
    /\ UNCHANGED queryVars

\* filters_to_exprs raises
NormalizeRaise ==
    /\ fpc = "start"
    /\ ~filters_to_exprs(fmap).ok
    /\ fpc' = "error"
    /\ UNCHANGED <<fmap, exprs, wpc, parts, whereSql, whereParams, werr>>
    /\ UNCHANGED builderVars
    /\ UNCHANGED queryVars

NextNormalize == NormalizeOk \/ NormalizeRaise \/ BuildWhereOk \/ BuildWhereRaise

SpecNormalize == InitNormalize /\ [][NextNormalize]_vars

(***************************************************************************)
(* Properties of the WHERE compiler                                        *)
(***************************************************************************)
NumTok(sql, tok) == Cardinality({i \in 1..Len(sql) : sql[i] = tok})
NumQ(sql) == NumTok(sql, "?")

Keywords == {"is", "not", "null", "in", "between", "and"}
IsValueTok(t) == t.c \in {"n", "q"} \/ (t.c = "w" /\ t.s \notin Keywords)

\* the value texts of an expression in the order they are written after the key
ValueTexts(e) == Texts(SelectSeq(Tail(e), IsValueTok))

\* the value texts inside one parameter; a parameter that is raw text (the
\* rest of an expression that is no literal) holds them between punctuation
ParamItems(p) ==
    IF p.ty = "text" /\ Len(p.items) > 1
    THEN SelectSeq(p.items, LAMBDA x : x \notin Keywords \cup {"[", "]", ","})
    ELSE p.items

RECURSIVE ConcatItems(_)
ConcatItems(ps) ==
    IF Len(ps) = 0 THEN <<>> ELSE ParamItems(ps[1]) \o ConcatItems(Tail(ps))

\* the element texts of a parameter sequence, left to right
FlatItems(ps) ==
    IF \A i \in 1..Len(ps) : Len(ps[i].items) = 1
    THEN [i \in 1..Len(ps) |-> ps[i].items[1]]
    ELSE ConcatItems(ps)

RECURSIVE QBefore(_, _)
\* number of placeholders in the parts before part j
QBefore(ps, j) == IF j <= 1 THEN 0 ELSE QBefore(ps, j - 1) + NumQ(ps[j - 1])

\* the parameters bound to the placeholders of part j under positional binding
BoundTo(j) == SubSeq(whereParams, QBefore(parts, j) + 1, QBefore(parts, j) + NumQ(parts[j]))

\* C1: the i-th placeholder of the WHERE text is bound to the i-th parameter:
\* the placeholders of the j-th expression's fragment receive exactly the values
\* written in the j-th expression, in the order written (chunk by chunk for a
\* chunked membership), and the text is the AND-join of the fragments.
C1_ParamsAligned ==
    wpc = "done" /\ Len(exprs) > 0 =>
        /\ Len(parts) = Len(exprs)
        /\ whereSql = <<"WHERE">> \o JoinSql(parts, "AND")
        /\ Len(whereParams) = QBefore(parts, Len(parts) + 1)
        /\ \A j \in 1..Len(exprs) :
              LET bound == BoundTo(j) IN FlatItems(bound) = ValueTexts(exprs[j])

C1_Witness ==
    /\ wpc = "done"
    /\ Len(exprs) = 2
    /\ NumQ(parts[1]) = 2 * IN_CHUNK + 1
    /\ NumTok(parts[1], "OR") = 2
    /\ NumQ(parts[2]) = 2

\* C2: the number of ? placeholders in the WHERE text equals the number of
\* returned parameters, for every accepted list of expressions.
C2_PlaceholderCount == wpc = "done" => NumQ(whereSql) = Len(whereParams)

C2_Witness ==
    /\ wpc = "done"
    /\ Len(exprs) = 2
    /\ NumTok(whereSql, "NULL") = 1
    /\ NumTok(whereSql, "IN") = 2
    /\ Len(whereParams) = IN_CHUNK + 1

\* k==[v1..vn] written with n literals
IsMembershipExpr(e) ==
    /\ Len(e) >= 5
    /\ e[1].c = "w" /\ e[2] = P("==")
    /\ e[3] = P("[") /\ e[Len(e)] = P("]")
    /\ IsItems(SubSeq(e, 4, Len(e) - 1))

MemberValues(e) == Items(SubSeq(e, 4, Len(e) - 1))

CeilDiv(a, b) == (a + b - 1) \div b

\* positions of the IN keywords of a fragment
InPos(part) == {i \in 1..Len(part) : part[i] = "IN"}

\* placeholders of the IN group that starts at position p
GroupSize(part, p) ==
    LET later == {q \in InPos(part) : q > p}
        stop == IF later = {} THEN Len(part) ELSE SetMin(later)
    IN Cardinality({i \in (p + 1)..stop : part[i] = "?"})

GroupStart(part, p) == Cardinality({i \in 1..p : part[i] = "?"})

\* the values bound to the IN group that starts at position p
GroupValues(part, bound, p) ==
    LET gs == GroupStart(part, p)
        n == GroupSize(part, p)
    IN {bound[i].items : i \in (gs + 1)..(gs + n)}

\* the compiled fragment evaluated on a row whose key column holds x
SatCompiled(part, bound, x) ==
    \E p \in InPos(part) : <<x>> \in GroupValues(part, bound, p)

ProbeValues == {ToString(i) : i \in {0, 1, IN_CHUNK, IN_CHUNK + 1, 2 * IN_CHUNK, 2 * IN_CHUNK + 1, 2 * IN_CHUNK + 2}}

\* C3: a membership over n > IN_CHUNK values compiles to ceil(n/IN_CHUNK) IN
\* groups of at most IN_CHUNK placeholders, OR-joined inside one pair of
\* parentheses, bound to v1..vn in order; a row satisfies it exactly when its
\* key value is one of v1..vn.
C3_ChunkedMembership ==
    wpc = "done" =>
        \A j \in 1..Len(exprs) :
            IsMembershipExpr(exprs[j]) /\ Len(MemberValues(exprs[j])) > IN_CHUNK =>
                LET vs == MemberValues(exprs[j])
                    part == parts[j]
                    bound == BoundTo(j)
                    groups == CeilDiv(Len(vs), IN_CHUNK)
                    member == {vs[i] : i \in 1..Len(vs)}
                IN /\ Cardinality(InPos(part)) = groups
                   /\ NumTok(part, "OR") = groups - 1
                   /\ part[1] = "(" /\ part[Len(part)] = ")"
                   /\ NumTok(part, "(") = groups + 1
                   /\ NumTok(part, ")") = groups + 1
                   /\ \A p \in InPos(part) : GroupSize(part, p) \in 1..IN_CHUNK
                   /\ bound = [i \in 1..Len(vs) |-> Value("scalar", <<vs[i]>>)]
                   /\ LET sat == UNION {GroupValues(part, bound, p) : p \in InPos(part)}
                      IN \A x \in ProbeValues : (<<x>> \in sat) <=> (x \in member)

C3_Witness ==
    /\ wpc = "done"
    /\ \E j \in 1..Len(exprs) :
          /\ IsMembershipExpr(exprs[j])
          /\ Len(MemberValues(exprs[j])) = 2 * IN_CHUNK + 1
          /\ Cardinality(InPos(parts[j])) = 3

(***************************************************************************)
(* Properties of QueryBuilder                                              *)
(***************************************************************************)
\* C6: a QuerySpec returned by to_spec() reads the same (filters with the raw
\* bucket and merged lists, projection, sort, limit, offset, sample) after any
\* later builder calls as when to_spec() returned.
C6_SpecFrozen == qspec.taken => SpecView(heap, qspec) = snap

\* duplicates: equal values, or texts that differ only in case
SameValue(u, v) == u = v \/ {u, v} = {"X", "x"}

\* positions of s that hold the first occurrence of their value
FirstPositions(s) ==
    {i \in 1..Len(s) : \A j \in 1..(i - 1) : ~SameValue(s[j], s[i])}

\* s is the supplied values in first-seen order without later duplicates
IsFirstSeenOrder(s, sup) ==
    /\ Len(s) = Cardinality(FirstPositions(sup))
    /\ \A i \in 1..Len(s) :
          \E p \in FirstPositions(sup) :
              /\ s[i] = sup[p]
              /\ Cardinality({q \in FirstPositions(sup) : q < p}) = i - 1

StoredA == builder._filters["a"]

\* C7 as claimed: after any sequence of filter calls that supply values for
\* the key, the stored value is the supplied values in first-seen order with
\* later duplicates removed (text compared case-insensitively).
C7_MergedAnySequence ==
    supplied.n >= 1 /\ supplied.vals # <<>> =>
        IsFirstSeenOrder(Contents(heap, StoredA), supplied.vals)

\* C7 amended: once two or more filter calls have supplied the key (a merge
\* has happened), the stored value is the supplied values in first-seen order
\* with later duplicates removed, a list when more than one value remains and
\* the bare value when one remains; a single call stores its argument as given.
C7_MergedAfterMerge ==
    /\ supplied.n >= 2 /\ supplied.vals # <<>> =>
          /\ IsFirstSeenOrder(Contents(heap, StoredA), supplied.vals)
          /\ StoredA.isList <=> Len(Contents(heap, StoredA)) > 1
    /\ supplied.n = 1 => Contents(heap, StoredA) = supplied.vals

C7_Witness ==
    /\ supplied.n = 3
    /\ Len(supplied.vals) = 4
    /\ Contents(heap, StoredA) = <<"X", "1">>
    /\ StoredA.isList

(***************************************************************************)
(* Properties of AgirDB.query                                              *)
(***************************************************************************)
Opened == pc \in {"Streaming", "Yielded", "Done", "Closed"} \/ (pc = "Failed" /\ err = "AttributeError")

\* the rows a filter map of the input pool asks for
Wanted(filters, row) ==
    IF filters = <<>> THEN TRUE
    ELSE IF filters = <<Entry("grp", FStr(<<W("a")>>))>> THEN row.grp = "a"
    ELSE IF filters = <<Entry("$raw", RawList(<<<<W("val"), P(">="), N(2)>>>>))>> THEN row.val >= 2
    ELSE FALSE

WantedRows == {i \in 1..Len(table) : Wanted(spec.filters, table[i])}

Strategy == IF spec.sample = None THEN "none" ELSE spec.sample[1].strategy

\* C4: a row whose conversion raises is counted, logged and skipped; every
\* later row is still scanned, convertible rows are still yielded, and the
\* query never fails once streaming has begun.
C4_RowFailureIsolated ==
    /\ pc = "Failed" => stats.rows_scanned = 0
    /\ pc = "Done" =>
          /\ stats.rows_scanned = Len(cur.rows)
          /\ stats.rows_invalid = Cardinality({i \in 1..Len(cur.rows) : ~table[cur.rows[i]].ok})
          /\ out = SelectSeq(cur.rows, LAMBDA r : table[r].ok)

\* a spec that must be rejected at compile time
Rejected(sp) ==
    \/ sp.filters \in BadFilters
    \/ /\ sp.sample # None
       /\ LET sm == sp.sample[1] IN
          \/ /\ sm.strategy \in {"random", "seeded"}
             /\ (IF sm.n # None THEN sm.n[1] ELSE IF sp.limit = None THEN 0 ELSE sp.limit[1]) <= 0
          \/ /\ sm.strategy = "stratified"
             /\ \/ sm.by = None \/ sm.by = Some(<<>>)
                \/ sm.per_group = None \/ sm.per_group[1] <= 0

\* the part of C5 about rejected specs: they fail in Compiling, nothing is read
RejectedFailsEarly ==
    Rejected(spec) /\ pc \notin {"Idle", "Created", "Compiling"} =>
        /\ pc = "Failed" /\ err = "ValueError"
        /\ stats.rows_scanned = 0 /\ out = <<>> /\ cur.rows = <<>> /\ ~stmt.ok

\* C5: a malformed filter or an invalid sample spec makes the query fail
\* before the statement is executed, no row read and no record yielded, and
\* the Failed state is entered only from Compiling.
C5_FailedOnlyFromCompiling ==
    [][ /\ pc' = "Failed" /\ pc # "Failed" => pc = "Compiling"
        /\ Rejected(spec) /\ pc = "Compiling" =>
              /\ pc' = "Failed"
              /\ stats'.rows_scanned = 0 /\ out' = <<>> /\ cur'.rows = <<>> ]_vars

Count(q, x) == Cardinality({i \in 1..Len(q) : q[i] = x})

CallerProjection == IF spec.projection = None THEN <<>> ELSE spec.projection[1]

\* the column list of the SELECT that reads the table is projection_cols
SelectsProjection ==
    \E p \in 1..Len(stmt.sql) :
        /\ stmt.sql[p] = "SELECT"
        /\ stmt.sql[p + 1] # "*"
        /\ SubSeq(stmt.sql, p + 1, p + 2 * Len(projection_cols) - 1)
             = JoinSql([i \in 1..Len(projection_cols) |-> <<projection_cols[i]>>], ",")
        /\ stmt.sql[p + 2 * Len(projection_cols)] \in {"FROM", ","}

\* C8 as claimed: the effective projection contains the identifier column
\* exactly once, for every spec.
C8_IdExactlyOnce ==
    pc \notin {"Off", "Idle", "Created"} => Count(projection_cols, id_column) = 1

\* C8 amended: the effective projection always contains the identifier
\* column; when a non-empty caller projection omits it, it is inserted at
\* position 0 followed by the caller's columns in order; when the caller's
\* projection names it, the projection is used as given (nothing inserted,
\* as many occurrences as the caller wrote); with no projection the table's
\* columns are used.
C8_IdPresent ==
    pc \notin {"Off", "Idle", "Created"} =>
        /\ Count(projection_cols, id_column) >= 1
        /\ IF CallerProjection = <<>> THEN projection_cols = TableCols
           ELSE IF Count(CallerProjection, id_column) = 0
                THEN projection_cols = <<id_column>> \o CallerProjection
                ELSE projection_cols = CallerProjection
        /\ stmt.ok => SelectsProjection

C8_Witness ==
    /\ pc = "Streaming"
    /\ Strategy = "stratified"
    /\ spec.projection = Some(<<"val", "grp">>)
    /\ projection_cols = <<"cutout_id", "val", "grp">>

SortWanted == IF spec.sort = None THEN <<<<id_column, "asc">>>> ELSE spec.sort[1]

\* C9: with no sample strategy the query delivers the filtered rows in the
\* requested order (ascending identifier by default), without the first
\* offset rows and cut to limit rows, for every combination of limit and
\* offset being present or absent.
C9_PlainPaging ==
    Strategy = "none" /\ spec.filters \in GoodFilters =>
        /\ pc # "Failed" \/ err = "AttributeError"
        /\ Opened =>
              \E q \in Perms(WantedRows) :
                  /\ \A i \in 1..(Len(q) - 1) : ~Before(table[q[i + 1]], table[q[i]], SortWanted)
                  /\ LET o == IF spec.offset = None THEN 0 ELSE spec.offset[1]
                         rest == SubSeq(q, o + 1, Len(q))
                     IN cur.rows = IF spec.limit = None THEN rest
                                   ELSE SubSeq(rest, 1, Min(spec.limit[1], Len(rest)))

\* the rows of S whose `by` columns equal those of row r
GroupOf(S, by, r) == {i \in S : \A c \in 1..Len(by) : TextCol(table[i], by[c]) = TextCol(table[r], by[c])}

RECURSIVE SumMin(_, _, _)
\* the sum of min(k, size) over the groups of S
SumMin(S, by, k) ==
    IF S = {} THEN 0
    ELSE LET r == CHOOSE x \in S : TRUE
             g == GroupOf(S, by, r)
         IN Min(k, Cardinality(g)) + SumMin(S \ g, by, k)

\* C10: stratified sampling with per_group = k and no limit/offset delivers,
\* for every group of the filtered set, min(k, size) of its rows and none
\* twice, so min(k,s1)+...+min(k,sm) rows in all and never more than k of one
\* group.
C10_StratifiedCount ==
    /\ Strategy = "stratified" /\ spec.limit = None /\ spec.offset = None /\ Opened
    => LET by == spec.sample[1].by[1]
           k == spec.sample[1].per_group[1]
           got == {cur.rows[i] : i \in 1..Len(cur.rows)}
       IN /\ got \subseteq WantedRows
          /\ Cardinality(got) = Len(cur.rows)
          /\ \A r \in WantedRows :
                Cardinality(GroupOf(got, by, r)) = Min(k, Cardinality(GroupOf(WantedRows, by, r)))
          /\ Len(cur.rows) = SumMin(WantedRows, by, k)
          /\ pc = "Done" => Len(out) = SumMin(WantedRows, by, k)

C10_Witness ==
    /\ pc = "Done"
    /\ Strategy = "stratified"
    /\ spec.limit = None /\ spec.offset = None
    /\ spec.sample[1].per_group = Some(2)
    /\ Cardinality({i \in WantedRows : table[i].grp = "a"}) = 3
    /\ Cardinality({i \in WantedRows : table[i].grp = "b"}) = 1
    /\ Len(out) = 3

Max(a, b) == IF a > b THEN a ELSE b

\* C11: stratified sampling with a limit and/or an offset caps every group
\* of the filtered set first and pages the capped result: the rows delivered
\* are distinct rows of the filtered set, at most per_group of one group, and
\* their number is the capped size less offset, at most limit, for each
\* combination of limit and offset being present.
C11_CapThenPage ==
    /\ Strategy = "stratified" /\ ~Rejected(spec)
    /\ spec.limit # None \/ spec.offset # None
    => /\ pc # "Failed" \/ err = "AttributeError"
       /\ Opened =>
             LET by == spec.sample[1].by[1]
                 k == spec.sample[1].per_group[1]
                 got == {cur.rows[i] : i \in 1..Len(cur.rows)}
                 o == IF spec.offset = None THEN 0 ELSE spec.offset[1]
                 rest == Max(0, SumMin(WantedRows, by, k) - o)
             IN /\ got \subseteq WantedRows
                /\ Cardinality(got) = Len(cur.rows)
                /\ \A r \in got : Cardinality(GroupOf(got, by, r)) <= k
                /\ Len(cur.rows) = IF spec.limit = None THEN rest ELSE Min(spec.limit[1], rest)

\* order_key = (row_ordinal * 1103515245 + seed) & 0x7fffffff, computed with
\* the multiplier split as 16838 * 2^16 + 20077 so that no product exceeds
\* 31 bits (row_ordinal <= 8, |seed| <= 2 * 10^9)
OrderKey(ordinal, seed) ==
    LET hi == ((ordinal * 16838) % 32768) * 65536
        lo == ordinal * 20077
        s == IF seed >= 0 THEN seed ELSE (seed + 2147483647) + 1
        a == IF hi > 2147483647 - lo THEN (hi - (2147483647 - lo)) - 1 ELSE hi + lo
    IN IF a > 2147483647 - s THEN (a - (2147483647 - s)) - 1 ELSE a + s

SeedWanted == IF spec.sample[1].seed = None THEN 0 ELSE spec.sample[1].seed[1]

\* the cap n of a random or seeded sample: sample.n, else spec.limit
CapWanted ==
    IF spec.sample[1].n # None THEN spec.sample[1].n[1]
    ELSE IF spec.limit # None THEN spec.limit[1] ELSE 0

\* row r1 comes before row r2 in the seeded order
SeededBefore(r1, r2) ==
    \/ OrderKey(r1, SeedWanted) < OrderKey(r2, SeedWanted)
    \/ OrderKey(r1, SeedWanted) = OrderKey(r2, SeedWanted) /\ r1 < r2

C13_SampleCap ==
    Strategy \in {"random", "seeded"} /\ ~Rejected(spec) =>
        /\ pc # "Failed" \/ err = "AttributeError"
        /\ Opened =>
              /\ \A i \in 1..Len(cur.rows) : cur.rows[i] \in WantedRows
              /\ Cardinality({cur.rows[i] : i \in 1..Len(cur.rows)}) = Len(cur.rows)
              /\ Len(cur.rows) = Min(CapWanted, Cardinality(WantedRows))
              /\ pc = "Done" => out = cur.rows

C13_Witness ==
    /\ pc = "Done"
    /\ Strategy = "random"
    /\ spec.sample[1].n = None
    /\ spec.limit = Some(2)
    /\ Cardinality(WantedRows) = 4
    /\ Len(out) = 2

ReadsOnDemand ==
    /\ stats.rows_scanned = cur.pos
    /\ cur.pos = Len(out) + stats.rows_invalid
    /\ pc = "Yielded" => out[Len(out)] = cur.rows[cur.pos]
    /\ consumer = "first" /\ result.rec # None =>
          /\ pc = "Closed" /\ out = <<result.rec[1]>>
          /\ cur.pos >= 1 /\ cur.rows[cur.pos] = result.rec[1]
          /\ stats.rows_returned = 1

\* C15: first() reads rows only until the first record is produced and then
\* stops, no later row being read or converted; it returns None when the
\* stream produces no record (so it never raises once the cursor is open);
\* the executor reads a further row only when the consumer asks for the next
\* record.
C15_FirstLazy ==
    /\ ReadsOnDemand
    /\ consumer = "first" =>
          /\ Opened => pc # "Failed"
          /\ result.returned /\ result.rec = None => pc = "Done" /\ out = <<>>
          /\ pc = "Done" => out = <<>>

\* C16: whenever the stream of a query ends, by exhaustion of the cursor or
\* because the caller stopped consuming early, the statistics (rows scanned,
\* returned, invalid, elapsed time) have been made available.
C16_StatsOnEnd ==
    pc \in {"Done", "Closed"} =>
        /\ stats.logged
        /\ stats.rows_scanned = cur.pos
        /\ stats.rows_returned = Len(out)

\* C17: query(spec) resolves the projection, compiles the WHERE clause and
\* validates the sample during the call: when the call has returned the
\* statement is compiled, a spec that must be rejected has made the call
\* raise, and the statement executed is the one of the spec as it was at call
\* time.
C17_CompiledAtCall ==
    /\ pc = "Created" =>
          /\ ~Rejected(called[1])
          /\ projection_cols = ResolveProjection(called[1])
    /\ stmt.ok => stmt = Statement(called[1], ResolveProjection(called[1]))

(***************************************************************************)
(* Properties of filters_to_exprs                                          *)
(***************************************************************************)
\* C18: filters_to_exprs returns a list of expressions for every filter map,
\* whatever the shapes of its values; it never raises, and malformed input
\* is reported only later, by parse_filter.
C18_NeverRaises == fpc # "error"

\* the expressions one entry of the map contributes
EntryExprs(e) ==
    IF IsRawKey(e.k) THEN RawExprs(e.v).exprs ELSE <<NormalExpr(e.k, e.v).expr>>

\* C19: the expressions returned by filters_to_exprs are in the order in
\* which their keys appear in the filter map, also when a raw-passthrough
\* key ($raw or a legacy __expr__ key) comes after ordinary keys.
C19_KeyOrder ==
    fpc = "done" => exprs = ConcatSeqs([i \in 1..Len(fmap) |-> EntryExprs(fmap[i])])

(***************************************************************************)
(* Properties of the WHERE text                                            *)
(***************************************************************************)
SqlVocabulary ==
    {"WHERE", "AND", "OR", "(", ")", ",", "?", "IN", "IS", "NOT", "NULL", "BETWEEN",
     "=", ">=", "<=", ">", "<"}

\* two expressions with the same key, operator and value shape that differ at
\* most in their values
DifferOnlyInValues(e1, e2) ==
    /\ Len(e1) = Len(e2)
    /\ Len(e1) >= 3
    /\ e1[1] = e2[1]
    /\ e1[2] = e2[2]
    /\ \A p \in 3..Len(e1) : e1[p] = e2[p] \/ (IsValueTok(e1[p]) /\ IsValueTok(e2[p]))

\* C20: the WHERE text consists only of the expressions' keys (word
\* characters), fixed SQL keywords and operators, parentheses, commas and ?
\* placeholders; no value is written into it, so two expressions with the
\* same key, operator and value shape compile to identical text whatever
\* their values, which are all bound as parameters.
C20_TextFreeOfValues ==
    wpc = "done" =>
        /\ \A j \in 1..Len(exprs) : IsWordTok(exprs[j][1])
        /\ \A i \in 1..Len(whereSql) :
              whereSql[i] \in SqlVocabulary \cup {exprs[j][1].s : j \in 1..Len(exprs)}
        /\ \A j1, j2 \in 1..Len(exprs) :
              DifferOnlyInValues(exprs[j1], exprs[j2]) => parts[j1] = parts[j2]
        /\ \A j \in 1..Len(exprs) :
              LET bound == BoundTo(j)
                  held == UNION { {bound[i].items[x] : x \in 1..Len(bound[i].items)} :
                                    i \in 1..Len(bound) }
              IN \A p \in 2..Len(exprs[j]) : IsValueTok(exprs[j][p]) => exprs[j][p].s \in held

C20_Witness ==
    /\ wpc = "done"
    /\ exprs = << <<W("m"), P("=="), P("["), N(8), P(","), N(9), P("]")>>,
                  <<W("m"), P("==")>> \o ListLit(2) >>
    /\ parts[1] = <<"m", "IN", "(", "?", ",", "?", ")">>
    /\ parts[2] = parts[1]
    /\ whereParams[1] # whereParams[3]

(***************************************************************************)
(* Properties of the connection handle                                     *)
(***************************************************************************)
NeedsConnection == {"next", "count", "get", "preview"}

OpenConns == {i \in 1..Len(conns) : conns[i] = "open"}

\* C21: across any sequence of query, count, get, preview and close calls on
\* one store: no connection exists before the first operation that needs
\* one, at most one connection is open at any time and it is the one the
\* store holds, an operation that finds it open reuses it, close() on a
\* closed or never-opened store changes nothing, and an operation after
\* close() opens a fresh connection.
C21_SingleLazyConnection ==
    [][ /\ Cardinality(OpenConns') <= 1
        /\ OpenConns' = {_conn'[i] : i \in 1..Len(_conn')}
        /\ (\A i \in 1..Len(log') : log'[i] \notin NeedsConnection) => conns' = <<>>
        /\ Len(log') = Len(log) + 1
        /\ LET op == log'[Len(log')] IN
           /\ op = "query" => UNCHANGED <<_conn, conns>>
           /\ op = "close" =>
                 /\ _conn' = None
                 /\ _conn = None => conns' = conns
                 /\ _conn # None => conns' = [conns EXCEPT ![_conn[1]] = "closed"]
           /\ op \in {"count", "get", "preview"} \/ (op = "next" /\ gen = "created") =>
                 IF _conn # None THEN UNCHANGED <<_conn, conns>>
                 ELSE /\ conns' = Append(conns, "open")
                      /\ _conn' = Some(Len(conns')) ]_vars

C21_Witness ==
    /\ log = <<"count", "close", "close", "get">>
    /\ conns = <<"closed", "open">>
    /\ _conn = Some(2)

(***************************************************************************)
(* Properties of parse_filter                                              *)
(***************************************************************************)
\* the three ways of writing a range with two literal bounds
IsRangeIn(e) ==
    /\ Len(e) = 7 /\ e[2] = W("in") /\ e[3] = P("[") /\ e[5] = P(",") /\ e[7] = P("]")
    /\ IsLitTok(e[4]) /\ IsLitTok(e[6])

IsRangeBetweenBracket(e) ==
    /\ Len(e) = 7 /\ e[2] = W("between") /\ e[3] = P("[") /\ e[5] = P(",") /\ e[7] = P("]")
    /\ IsLitTok(e[4]) /\ IsLitTok(e[6])

IsRangeBetweenAnd(e) ==
    /\ Len(e) = 5 /\ e[2] = W("between") /\ e[4] = W("and")
    /\ IsLitTok(e[3]) /\ IsLitTok(e[5])

RangeLo(e) == IF IsRangeBetweenAnd(e) THEN e[3].s ELSE e[4].s

RangeHi(e) == IF IsRangeBetweenAnd(e) THEN e[5].s ELSE e[6].s

\* a row whose column val holds x
ProbeRow(x) == [rowid |-> 1, cutout_id |-> 1, grp |-> "a", val |-> x, ok |-> TRUE]

\* C22: `k in [lo,hi]`, `k between [lo,hi]` and `k between lo and hi` all
\* compile to the fragment k BETWEEN ? AND ? with the parameters (lo, hi) in
\* that order, and so select exactly the rows with lo <= k <= hi.
C22_RangeSyntaxes ==
    wpc = "done" =>
        \A j \in 1..Len(exprs) :
            IsRangeIn(exprs[j]) \/ IsRangeBetweenBracket(exprs[j]) \/ IsRangeBetweenAnd(exprs[j]) =>
                LET bound == BoundTo(j) IN
                /\ parts[j] = <<exprs[j][1].s, "BETWEEN", "?", "AND", "?">>
                /\ bound = <<Value("scalar", <<RangeLo(exprs[j])>>),
                             Value("scalar", <<RangeHi(exprs[j])>>)>>
                /\ \A x \in 0..12 :
                      EvalPart([parts[j] EXCEPT ![1] = "val"], bound, ProbeRow(x))
                      <=> (NumOf(RangeLo(exprs[j])) <= x /\ x <= NumOf(RangeHi(exprs[j])))

C22_Witness ==
    /\ wpc = "done"
    /\ Len(exprs) = 2
    /\ IsRangeBetweenBracket(exprs[1])
    /\ IsRangeBetweenAnd(exprs[2])
    /\ parts[1] = parts[2]
    /\ whereParams = <<Value("scalar", <<"4">>), Value("scalar", <<"8">>),
                       Value("scalar", <<"5">>), Value("scalar", <<"7">>)>>

(***************************************************************************)
(* The rules of filters_to_exprs                                           *)
(***************************************************************************)
HasTok(toks, S) == \E i \in 1..Len(toks) : toks[i] \in S

Truthy(v) ==
    CASE v.ty = "bool" -> v.toks = <<W("True")>>
      [] v.ty = "int" -> v.toks # <<N(0)>>
      [] v.ty = "str" -> v.toks # <<>>
      [] v.ty \in {"list", "tuple", "set"} -> v.items # <<>>
      [] OTHER -> v.ty # "NoneType"

\* the number of the first rule that matches a non-raw entry (2..8)
RuleOf(e) ==
    IF e.k \in {"has_mask", "has_masks"} THEN 2
    ELSE IF e.k \in {"val>=", "val<=", "val>", "val<", "val=="} THEN 3
    ELSE IF e.v.ty = "str"
            /\ \/ HasTok(e.v.toks, {P("=="), P(">="), P("<="), P(">"), P("<")})
               \/ \E i \in 2..(Len(e.v.toks) - 1) : e.v.toks[i] \in {W("in"), W("between")}
               \/ \E i \in 2..(Len(e.v.toks) - 1) :
                     /\ e.v.toks[i] = W("is")
                     /\ \/ e.v.toks[i + 1] = W("null")
                        \/ /\ i + 2 <= Len(e.v.toks)
                           /\ e.v.toks[i + 1] = W("not")
                           /\ e.v.toks[i + 2] = W("null")
         THEN 4
    ELSE IF e.v.ty = "str" /\ HasTok(e.v.toks, {P(",")}) /\ e.v.toks[1] # P("[") THEN 5
    ELSE IF e.v.ty \in {"list", "tuple", "set"} THEN 6
    ELSE IF e.v.ty \in {"dict_in", "dict_between"} THEN 7
    ELSE 8

\* [x1,x2,...] written from the element tokens xs
Bracketed(xs) ==
    <<P("[")>> \o [i \in 1..(IF Len(xs) = 0 THEN 0 ELSE 2 * Len(xs) - 1) |->
                     IF i % 2 = 1 THEN xs[(i + 1) \div 2] ELSE P(",")] \o <<P("]")>>

\* the expression the rule of a non-raw entry emits
RuleExpr(e) ==
    LET k == e.k
        v == e.v
        elems == [i \in 1..Len(v.items) |-> v.items[i].toks[1]]
        bare == "val"
        op == CASE k = "val>=" -> ">=" [] k = "val<=" -> "<=" [] k = "val==" -> "=="
                [] k = "val>" -> ">" [] OTHER -> "<"
    IN CASE RuleOf(e) = 2 ->
              IF Truthy(v) THEN <<W("mask_path"), W("is"), W("not"), W("null")>>
              ELSE <<W("mask_path"), W("is"), W("null")>>
         [] RuleOf(e) = 3 ->
              <<W(bare), P(op)>> \o (IF v.ty = "list" THEN Bracketed(elems) ELSE v.toks)
         [] RuleOf(e) = 4 -> v.toks
         [] RuleOf(e) = 5 ->
              <<W(k), P("==")>>
              \o Bracketed([i \in 1..((Len(v.toks) + 1) \div 2) |->
                               [c |-> "q", s |-> v.toks[2 * i - 1].s]])
         [] RuleOf(e) = 6 -> <<W(k), P("==")>> \o Bracketed(elems)
         [] RuleOf(e) = 7 ->
              <<W(k), W(IF v.ty = "dict_in" THEN "in" ELSE "between")>> \o Bracketed(elems)
         [] OTHER -> <<W(k), P("==")>> \o v.toks

RawKeys == {"$raw", "__expr__0", "__expr__1"}

\* the number of expressions a raw entry passes through
RawCount(e) ==
    IF e.v.ty = "str" THEN 1
    ELSE Cardinality({i \in 1..Len(e.v.items) : e.v.items[i].isStr})

RECURSIVE SumOver(_, _)
SumOver(m, i) ==
    IF i > Len(m) THEN 0
    ELSE (IF m[i].k \in RawKeys THEN RawCount(m[i]) ELSE 1) + SumOver(m, i + 1)

\* C23: for each key of the filter map exactly the first matching rule is
\* applied, in the order raw key, has_mask(s), key ending in an operator,
\* string that contains an operator or keyword, comma-separated string not
\* starting with a bracket, list/tuple/set, map with in/between, scalar
\* equality; every non-raw key contributes exactly one expression.
C23_FirstRuleWins ==
    fpc = "done" =>
        /\ Len(exprs) = SumOver(fmap, 1)
        /\ \A i \in 1..Len(fmap) :
              IF fmap[i].k \in RawKeys
              THEN fmap[i].v.ty = "str" => \E j \in 1..Len(exprs) : exprs[j] = fmap[i].v.toks
              ELSE \E j \in 1..Len(exprs) : exprs[j] = RuleExpr(fmap[i])

C23_Witness ==
    /\ fpc = "done"
    /\ Len(fmap) = 2
    /\ fmap[1] = Entry("val>=", FStr(<<W("x"), P("=="), N(1)>>))
    /\ fmap[2] = Entry("grp", FStr(<<W("a"), P(","), W("b"), P(">"), W("c")>>))
    /\ exprs = << <<W("val"), P(">="), W("x"), P("=="), N(1)>>,
                  <<W("a"), P(","), W("b"), P(">"), W("c")>> >>

(***************************************************************************)
(* The rules of parse_filter                                               *)
(***************************************************************************)
NullForm(e) ==
    /\ IsWordTok(e[1])
    /\ \/ Tail(e) = <<W("is"), W("null")>>
       \/ Tail(e) = <<W("is"), W("not"), W("null")>>

BracketForm(e) ==
    /\ Len(e) >= 7
    /\ IsWordTok(e[1])
    /\ e[2] \in {W("in"), W("between")}
    /\ e[3] = P("[")
    /\ e[Len(e)] = P("]")
    /\ \E p \in 5..(Len(e) - 2) : e[p] = P(",")

BetweenAndForm(e) ==
    /\ Len(e) >= 5
    /\ IsWordTok(e[1])
    /\ e[2] = W("between")
    /\ \E p \in 4..(Len(e) - 1) : e[p] = W("and")

BinForm(e) ==
    /\ Len(e) >= 3
    /\ IsWordTok(e[1])
    /\ e[2] \in {P("=="), P(">="), P("<="), P(">"), P("<")}

NoForm(e) == ~(NullForm(e) \/ BracketForm(e) \/ BetweenAndForm(e) \/ BinForm(e))

\* text t occurs in message m as a contiguous run
Contains(m, t) == \E i \in 0..(Len(m) - Len(t)) : SubSeq(m, i + 1, i + Len(t)) = t

Between(k) == <<k, "BETWEEN", "?", "AND", "?">>

\* C24: parse_filter returns the result of the first rule that matches, in
\* the order null-check, bracketed range, unbracketed between, binary
\* operator: k is [not] null gives IS [NOT] NULL without parameter,
\* k in [lo,hi] gives a range although k==[a,b] gives a membership, == with
\* a scalar gives =, the operators >=, <=, >, < are kept, and an expression
\* that matches no rule raises an error containing the expression text.
C24_FirstRuleWins ==
    /\ wpc = "done" =>
          \A j \in 1..Len(exprs) :
              LET e == exprs[j]
                  k == e[1].s
              IN IF NullForm(e) THEN
                     /\ parts[j] = <<k, "IS">> \o (IF Len(e) = 4 THEN <<"NOT">> ELSE <<>>) \o <<"NULL">>
                     /\ BoundTo(j) = <<>>
                 ELSE IF BracketForm(e) THEN
                     /\ parts[j] = Between(k)
                     /\ e[5] = P(",") => BoundTo(j)[1] = Value("scalar", <<e[4].s>>)
                 ELSE IF BetweenAndForm(e) THEN
                     /\ parts[j] = Between(k)
                     /\ e[4] = W("and") => BoundTo(j)[1] = Value("scalar", <<e[3].s>>)
                 ELSE /\ BinForm(e)
                      /\ Len(e) = 3 =>
                            /\ parts[j] = <<k, IF e[2].s = "==" THEN "=" ELSE e[2].s, "?">>
                            /\ BoundTo(j) = <<Value(IF IsLitTok(e[3]) THEN "scalar" ELSE "text",
                                                    <<e[3].s>>)>>
                      /\ Len(e) > 4 /\ e[3] = P("[") =>
                            /\ e[2] = P("==")
                            /\ \E i \in 1..Len(parts[j]) : parts[j][i] = "IN"
                            /\ \A i \in 1..Len(parts[j]) : parts[j][i] # "BETWEEN"
    /\ wpc = "error" =>
          \E j \in 1..Len(exprs) :
              /\ NoForm(exprs[j])
              /\ Contains(werr, Texts(exprs[j]))
    /\ (\E j \in 1..Len(exprs) : NoForm(exprs[j])) => wpc \in {"start", "error"}

C24_Witness ==
    /\ wpc = "done"
    /\ Len(exprs) = 2
    /\ BracketForm(exprs[1]) /\ BetweenAndForm(exprs[1])
    /\ parts[1] = Between("k")
    /\ whereParams[2] = Value("text", <<"2", "]", "and", "[", "3", ",", "4">>)
    /\ exprs[2] = <<W("m"), P("=="), P("["), N(8), P(","), N(9), P("]")>>
    /\ parts[2] = <<"m", "IN", "(", "?", ",", "?", ")">>

(***************************************************************************)
(* Properties of the record adapters                                       *)
(***************************************************************************)
Unset(v) == v.ty \in {"absent", "null"}

IdCol == IF db_type = "semif" THEN "cutout_id" ELSE "id"

\* C25: for every row both record adapters return a record in which each
\* missing or null column is an unset field and the full column map is kept
\* as pass-through; neither adapter raises, whatever the type of the value
\* stored in a path column.
C25_AdaptersTotal ==
    /\ rpc # "error"
    /\ rpc = "done" =>
          /\ record.extras = {<<c, data[c]>> : c \in {x \in DOMAIN data : data[x].ty # "absent"}}
          /\ Unset(data["image_id"]) => record.image_id = None
          /\ db_type = "semif" /\ Unset(data["image_path"]) => record.image_path = None
          /\ db_type = "semif" /\ Unset(data["mask_path"]) => record.mask_path = None
          /\ db_type = "field" /\ Unset(data["final_mask_path"]) => record.mask_path = None
          /\ \A col \in DOMAIN data :
                Unset(data[col]) => \A x \in record.aux_paths : x[1] # col

(***************************************************************************)
(* Properties of the compiled statement                                    *)
(***************************************************************************)
IsPlaceholder(tok) == tok = "?" \/ tok = ":seed"

\* what the placeholder at position i of the text stands for
RoleAt(sql, i) ==
    IF sql[i] = ":seed" THEN "seed"
    ELSE IF sql[i - 1] = "LIMIT" THEN "limit"
    ELSE IF sql[i - 1] = "OFFSET" THEN "offset"
    ELSE IF sql[i - 1] = "<=" /\ sql[i - 2] = "__rn" THEN "per_group"
    ELSE "where"

\* the roles of the placeholders of a text, left to right
Roles(sql) ==
    LET pos == SelectSeq([i \in 1..Len(sql) |-> i], LAMBDA i : IsPlaceholder(sql[i]))
    IN [j \in 1..Len(pos) |-> RoleAt(sql, pos[j])]

Bind(role, v) == [role |-> role, v |-> v]

\* the values a spec asks to bind, with their roles, in the order WHERE
\* parameters, seed, n or per_group, limit, offset
WantedBound(sp) ==
    LET wp == build_where(filters_to_exprs(sp.filters).exprs).params
        strategy == IF sp.sample = None THEN "none" ELSE sp.sample[1].strategy
        n == IF sp.sample[1].n # None THEN sp.sample[1].n ELSE sp.limit
        seed == IF sp.sample[1].seed # None THEN sp.sample[1].seed ELSE Some(0)
        lim == IF sp.limit # None THEN <<Bind("limit", sp.limit[1])>> ELSE <<>>
        off == IF sp.offset # None THEN <<Bind("offset", sp.offset[1])>> ELSE <<>>
    IN [i \in 1..Len(wp) |-> Bind("where", wp[i])]
       \o CASE strategy = "random" -> <<Bind("limit", n[1])>>
            [] strategy = "seeded" -> <<Bind("seed", seed[1]), Bind("limit", n[1])>>
            [] strategy = "stratified" -> <<Bind("per_group", sp.sample[1].per_group[1])>> \o lim \o off
            [] OTHER -> lim \o off

\* C26: for every sampling strategy and every filter map the statement that
\* query executes has as many placeholders (each ? and the seed placeholder)
\* as values are bound, and they correspond in order: WHERE parameters, then
\* the seed (seeded only), then n or per_group, then limit, then offset.
C26_PlaceholdersMatchBound ==
    stmt.ok =>
        LET bound == stmt.bound.params \o stmt.bound.tail
            roles == Roles(stmt.sql)
        IN /\ Len(roles) = Len(bound)
           /\ [i \in 1..Len(bound) |-> Bind(roles[i], bound[i])] = WantedBound(spec)

C26_Witness ==
    /\ stmt.ok
    /\ stmt.kind = "stratified"
    /\ Roles(stmt.sql) = <<"where", "per_group", "limit", "offset">>
    /\ stmt.bound.tail = <<2, 2, 1>>
    /\ Len(stmt.bound.params) = 1

(***************************************************************************)
(* Properties of the membership fragment                                   *)
(***************************************************************************)
\* k==[...] with a list of any length
IsMembership(e) ==
    /\ Len(e) >= 4
    /\ IsWordTok(e[1])
    /\ e[2] = P("==")
    /\ e[3] = P("[")
    /\ e[Len(e)] = P("]")
    /\ Len(e) > 4 => IsItems(SubSeq(e, 4, Len(e) - 1))

\* C27: for a membership expression k==[...] of any list length n >= 0, the
\* empty list included, the fragment contains at least one k IN (...) group
\* with at least one placeholder, so the WHERE clause is a well-formed
\* predicate.
C27_MembershipWellFormed ==
    wpc = "done" =>
        \A j \in 1..Len(exprs) :
            IsMembership(exprs[j]) =>
                /\ \E i \in 1..(Len(parts[j]) - 4) :
                      /\ parts[j][i] = exprs[j][1].s
                      /\ parts[j][i + 1] = "IN"
                      /\ parts[j][i + 2] = "("
                      /\ parts[j][i + 3] = "?"
                /\ \A i \in 1..(Len(parts[j]) - 1) :
                      parts[j][i] = "(" => parts[j][i + 1] # ")"

(***************************************************************************)
(* What the statement of a sampling query does not depend on               *)
(***************************************************************************)
OtherOffsets == {None, Some(3)}
OtherLimits == {None, Some(0), Some(5)}
OtherSeeds == {None, Some(7), Some(-1)}

\* the text and the bound values of the statement of a spec
Compiled(sp) ==
    LET st == Statement(sp, ResolveProjection(sp))
    IN [ok |-> st.ok, sql |-> st.sql, bound |-> st.bound.params \o st.bound.tail]

\* C28: the statement of random or seeded sampling does not depend on
\* spec.sort or spec.offset, nor on spec.limit when sample.n is given; the
\* statement of stratified sampling does not depend on spec.sort or on the
\* seed given to sample_stratified: specs that differ only in those fields
\* compile to the same statement and bound values.  Stated of the state in
\* which the statement has just been executed.
C28_SamplingIgnoresFields ==
    pc = "Streaming" /\ cur.pos = 0 /\ spec.sample # None =>
        LET sm == spec.sample[1]
            here == Compiled(spec)
        IN /\ here.sql = stmt.sql
           /\ sm.strategy \in {"random", "seeded"} =>
                 /\ \A s \in Sorts, o \in OtherOffsets :
                       Compiled([spec EXCEPT !.sort = s, !.offset = o]) = here
                 /\ sm.n # None =>
                       \A s \in Sorts, o \in OtherOffsets, l \in OtherLimits :
                           Compiled([spec EXCEPT !.sort = s, !.offset = o, !.limit = l]) = here
           /\ sm.strategy = "stratified" =>
                 \A s \in Sorts, sd \in OtherSeeds :
                     Compiled([spec EXCEPT !.sort = s,
                                           !.sample = Some([sm EXCEPT !.seed = sd])]) = here

C28_Witness ==
    /\ pc = "Streaming"
    /\ cur.pos = 0
    /\ stmt.kind = "seeded"
    /\ spec.sort = Some(<<<<"val", "desc">>>>)
    /\ spec.limit = Some(2)
    /\ spec.offset = Some(1)
    /\ spec.sample[1].n = Some(2)
    /\ Compiled([spec EXCEPT !.sort = None, !.offset = None, !.limit = None]).sql = stmt.sql
    /\ \A i \in 1..Len(stmt.sql) : stmt.sql[i] \notin {"OFFSET", "DESC"}

(***************************************************************************)
(* Properties of the columns of a record                                   *)
(***************************************************************************)
\* C29: the columns carried by each yielded record (its pass-through map)
\* are the effective projection, under every sampling strategy; stratified
\* sampling adds no column of its own.
C29_RecordColumns ==
    pc = "Yielded" =>
        ExtrasKeys(stmt.sql) = {projection_cols[i] : i \in 1..Len(projection_cols)}

(***************************************************************************)
(* Properties of the seeded order key                                      *)
(***************************************************************************)
\* C30: for any seed the key (row_ordinal * 1103515245 + seed) & 0x7fffffff
\* is injective on row ordinals in [0, 2^31): two distinct rows never get the
\* same key.
C30_KeyInjective ==
    kpc = "done" /\ kords[1] # kords[2] => kkeys[1] # kkeys[2]

====
